---- MODULE Spec2Model ----
(***************************************************************************)
(* A model of the Sigma-protocol core of ark-spartan: Pedersen commitment  *)
(* generators, commitments, the Merlin transcript adapter, the random      *)
(* tape, the knowledge / equality / product / dot-product proofs and the   *)
(* R1CS argument built from them.                                          *)
(*                                                                         *)
(* The scalar field is Z_P for a small prime P.  The group is the cyclic   *)
(* group of the same prime order, written additively; an element is        *)
(* represented by its multiple of the canonical generator, so the group    *)
(* law is addition mod P and scalar multiplication is multiplication       *)
(* mod P.  The identity is 0.                                              *)
(***************************************************************************)
EXTENDS Integers, Sequences, FiniteSets, TLC

VARIABLES rngSeed, phase, kind, inp, out, arg, res, gensLog

vars == <<rngSeed, phase, kind, inp, out, arg, res, gensLog>>

(***************************************************************************)
(* Bounds of the model.                                                    *)
(***************************************************************************)
\* Prover inputs (witness values, caller-supplied blinds) range over 0..MaxVal.
MaxVal == 2
\* Entries of the vectors x and a of a dot-product proof range over 0..MaxEntry.
MaxEntry == 1
\* Vectors of the linear-size dot-product proof have length 1..MaxLen.
MaxLen == 2
\* Vectors of the log-size dot-product proof have length 2^lg, lg in 0..MaxLg.
MaxLg == 1
\* MultiCommitGens::new is called with n in 0..MaxGens.
MaxGens == 3
\* The log of generator constructions keeps at most MaxCalls entries.
MaxCalls == 2

\* A scalar of a proof is altered by adding d in 1..MaxDelta to it.
MaxDelta == 2

\* An R1CS instance has 2^LgCons constraints and 2^LgVars variables.
LgCons == 1
LgVars == 1
\* The non-zero variables and the inputs of an R1CS assignment range over
\* 0..MaxWit; there are 0..MaxInputs inputs.
MaxWit == 1
MaxInputs == 1

(***************************************************************************)
(* Scalar field and group (G::ScalarField, G: ProjectiveCurve).            *)
(***************************************************************************)
P == 7

F == 0 .. (P - 1)

Vals == { v % P : v \in 0 .. MaxVal }

Entries == { v % P : v \in 0 .. MaxEntry }

fadd(a, b) == (a + b) % P

fsub(a, b) == (a + P - (b % P)) % P

fmul(a, b) == (a * b) % P

\* Group addition, subtraction and scalar multiplication (G.mul(scalar)).
gadd(A, B) == (A + B) % P

gsub(A, B) == (A + P - (B % P)) % P

gmul(A, s) == (A * s) % P

\* The multiplicative inverse of a non-zero scalar (Field::inverse).
finv(a) == CHOOSE b \in F : (a * b) % P = 1

\* The product of a sequence of scalars (Iterator::product).
RECURSIVE fmul_seq(_)
fmul_seq(s) == IF Len(s) = 0 THEN 1 ELSE (Head(s) * fmul_seq(Tail(s))) % P

RECURSIVE SumSeq(_)
SumSeq(s) == IF Len(s) = 0 THEN 0 ELSE (Head(s) + SumSeq(Tail(s))) % P

\* All sequences over S of length exactly n.
SeqsOfLen(S, n) == [1 .. n -> S]

(***************************************************************************)
(* Byte strings.  Every label, protocol name and marker used by the code   *)
(* is a byte string; its encoding is its index in this table.              *)
(***************************************************************************)
ByteStrings ==
  << "protocol-name", "dom-sep", "example", "other", "proof",
     "init_randomness", "begin_append_vector", "end_append_vector",
     "knowledge proof", "equality proof", "product proof",
     "dot product proof", "dot product proof (log)", "R1CS proof",
     "t1", "t2", "C", "alpha", "c", "r", "C1", "C2",
     "b1", "b2", "b3", "b4", "b5", "X", "Y", "Z", "beta", "delta",
     "d_vec", "r_delta", "r_beta", "Cx", "Cy", "a", "d",
     "blinds_vec_1", "blinds_vec_2", "L", "R", "u",
     "bullet reduction proof",
     "test-knowledgeproof", "test-equalityproof", "test-productproof",
     "test-two", "test-1024", "test-m",
     "input", "poly_commitment", "poly_commitment_begin",
     "poly_commitment_end", "poly_blinds", "challenge_tau",
     "zk sumcheck proof", "blinds_poly", "blinds_evals", "comm_poly",
     "challenge_nextround", "polynomial evaluation proof",
     "Az_blind", "Bz_blind", "Cz_blind", "prod_Az_Bz_blind",
     "comm_Az_claim", "comm_Bz_claim", "comm_Cz_claim",
     "comm_prod_Az_Bz_claims", "challenege_Az", "challenege_Bz",
     "challenege_Cz", "blind_eval" >>

ByteCode(b) == CHOOSE i \in 1 .. Len(ByteStrings) : ByteStrings[i] = b

\* A message payload that is a byte string rather than a serialized scalar or
\* point: encoded above the range 0..P-1 of the serialized field and group
\* elements.
Bytes(b) == P + ByteCode(b)

(***************************************************************************)
(* merlin::Transcript.  A transcript is the log of the operations done on  *)
(* it together with the STROBE state st those operations leave; st is a    *)
(* function of the log, and a challenge is a function of st.               *)
(***************************************************************************)
StrobeModulus == 10007

StrobeInit == 1

StrobeStep(st, m) ==
  (st * 131 + ByteCode(m.label) * 17 + m.data * 3 + 1) % StrobeModulus

\* Transcript::append_message(label, message)
append_message(tr, label, data) ==
  LET m == [label |-> label, data |-> data]
  IN  [log |-> Append(tr.log, m), st |-> StrobeStep(tr.st, m)]

\* Transcript::new(label)
Transcript_new(label) ==
  append_message([log |-> << >>, st |-> StrobeInit], "dom-sep", Bytes(label))

\* ProofTranscript::append_protocol_name
append_protocol_name(tr, protocol_name) ==
  append_message(tr, "protocol-name", Bytes(protocol_name))

\* ProofTranscript::append_scalar
append_scalar(tr, label, scalar) == append_message(tr, label, scalar % P)

\* ProofTranscript::append_point
append_point(tr, label, point) == append_message(tr, label, point % P)

\* The marker a challenge leaves in the log: the squeeze itself changes the
\* transcript state.
ChallengeMark == 0

\* ProofTranscript::challenge_scalar: 64 challenge bytes reduced mod the field
\* order.  Returns the scalar and the transcript after the squeeze.
challenge_scalar(tr, label) ==
  LET tr2 == append_message(tr, label, ChallengeMark)
  IN  [val |-> (tr2.st \div 3) % P, tr |-> tr2]

\* The scalar the last challenge_scalar on tr returned.
last_challenge(tr) == (tr.st \div 3) % P

\* ProofTranscript::challenge_vector
RECURSIVE challenge_vector(_, _, _)
challenge_vector(tr, label, len) ==
  IF len = 0 THEN [val |-> << >>, tr |-> tr]
  ELSE LET rest == challenge_vector(tr, label, len - 1)
           last == challenge_scalar(rest.tr, label)
       IN  [val |-> Append(rest.val, last.val), tr |-> last.tr]

\* AppendToTranscript for [G::ScalarField]
RECURSIVE append_scalars_loop(_, _, _)
append_scalars_loop(tr, label, v) ==
  IF Len(v) = 0 THEN tr
  ELSE append_scalars_loop(append_scalar(tr, label, Head(v)), label, Tail(v))

append_vector_to_transcript(tr, label, v) ==
  append_message(
    append_scalars_loop(
      append_message(tr, label, Bytes("begin_append_vector")), label, v),
    label, Bytes("end_append_vector"))

\* ProofTranscript::append_scalars: absorbs a vector of scalars under one
\* label, between the two markers.
append_scalars(tr, label, v) == append_vector_to_transcript(tr, label, v)

(***************************************************************************)
(* RandomTape                                                              *)
(***************************************************************************)
\* ark_std::test_rng() is seeded with a fixed constant, so F::rand(&mut prng)
\* on a fresh test_rng() is one fixed scalar: rngSeed, chosen once in Init.
RandomTape_new(name) ==
  append_scalar(Transcript_new(name), "init_randomness", rngSeed)

random_scalar(tape, label) == challenge_scalar(tape, label)

random_vector(tape, label, len) == challenge_vector(tape, label, len)

(***************************************************************************)
(* MultiCommitGens                                                         *)
(***************************************************************************)
\* The 32-byte seed read from Shake256(label || generator).
ShakeSeed(label) == (ByteCode(label) * 29 + 5) % StrobeModulus

\* The i-th element (i = 0, 1, ...) drawn with G::rand from
\* ChaCha20Rng::from_seed(seed): a uniform element of the group, the identity
\* with negligible probability only.
GroupRand(seed, i) == 1 + ((seed + 5 * i) % (P - 1))

MultiCommitGens_new_sized(n, label) ==
  LET gens == [i \in 1 .. (n + 1) |-> GroupRand(ShakeSeed(label) + n, i - 1)]
  IN  [n |-> n, G |-> SubSeq(gens, 1, n), h |-> gens[n + 1]]

MultiCommitGens_new_shared(n, label) ==
  LET base == Len(gensLog)
      gens == [i \in 1 .. (n + 1) |-> GroupRand(ShakeSeed(label), base + i - 1)]
  IN  [n |-> n, G |-> SubSeq(gens, 1, n), h |-> gens[n + 1]]

MultiCommitGens_new(n, label) ==
  LET gens == [i \in 1 .. (n + 1) |-> GroupRand(ShakeSeed(label), i - 1)]
  IN  [n |-> n, G |-> SubSeq(gens, 1, n), h |-> gens[n + 1]]

split_at_prefix(g, mid) ==
  << [n |-> mid, G |-> SubSeq(g.G, 1, mid), h |-> g.h],
     [n |-> Len(g.G) - mid, G |-> SubSeq(g.G, 1, Len(g.G) - mid), h |-> g.h] >>

split_at(g, mid) ==
  << [n |-> mid, G |-> SubSeq(g.G, 1, mid), h |-> g.h],
     [n |-> Len(g.G) - mid, G |-> SubSeq(g.G, mid + 1, Len(g.G)), h |-> g.h] >>

(***************************************************************************)
(* Commitments                                                             *)
(***************************************************************************)
\* VariableBaseMSM::multi_scalar_mul(bases, scalars)
RECURSIVE multi_scalar_mul(_, _)
multi_scalar_mul(bases, scalars) ==
  IF Len(bases) = 0 \/ Len(scalars) = 0 THEN 0
  ELSE gadd(gmul(Head(bases), Head(scalars)),
            multi_scalar_mul(Tail(bases), Tail(scalars)))

\* Commitments for F: assert_eq!(gens_n.n, 1) guards the computation.
commit_scalar_ok(gens_n) == gens_n.n = 1

commit_scalar_shifted(v, blind, gens_n) ==
  gadd(gmul(gens_n.G[1], fadd(v, 1)), gmul(gens_n.h, blind))

commit_scalar(v, blind, gens_n) ==
  gadd(gmul(gens_n.G[1], v), gmul(gens_n.h, blind))

\* Commitments for Vec<F> and [F]: assert_eq!(gens_n.n, self.len()).
commit_vec_ok(v, gens_n) == gens_n.n = Len(v)

commit_vec_noblind(v, blind, gens_n) == multi_scalar_mul(gens_n.G, v)

commit_vec(v, blind, gens_n) ==
  multi_scalar_mul(Append(gens_n.G, gens_n.h), Append(v, blind))

(***************************************************************************)
(* KnowledgeProof                                                          *)
(***************************************************************************)
KnowledgeProof_prove_negblind(gens_n, transcript, random_tape, x, r) ==
  LET tr0   == append_protocol_name(transcript, "knowledge proof")
      t1    == random_scalar(random_tape, "t1")
      t2    == random_scalar(t1.tr, "t2")
      C     == commit_scalar(x, r, gens_n)
      tr1   == append_point(tr0, "C", C)
      alpha == commit_scalar(t1.val, t2.val, gens_n)
      tr2   == append_point(tr1, "alpha", alpha)
      c     == challenge_scalar(tr2, "c")
      z1    == fadd(fmul(x, c.val), t1.val)
      z2    == fsub(fmul(r, c.val), t2.val)
  IN  [proof |-> [alpha |-> alpha, z1 |-> z1, z2 |-> z2], C |-> C,
       transcript |-> c.tr, random_tape |-> t2.tr, panic |-> FALSE]

KnowledgeProof_prove_aliased(gens_n, transcript, random_tape, x, r) ==
  LET tr0   == append_protocol_name(transcript, "knowledge proof")
      t1    == random_scalar(tr0, "t1")
      t2    == random_scalar(random_tape, "t2")
      C     == commit_scalar(x, r, gens_n)
      tr1   == append_point(t1.tr, "C", C)
      alpha == commit_scalar(t1.val, t2.val, gens_n)
      tr2   == append_point(tr1, "alpha", alpha)
      c     == challenge_scalar(tr2, "c")
      z1    == fadd(fmul(x, c.val), t1.val)
      z2    == fadd(fmul(r, c.val), t2.val)
  IN  [proof |-> [alpha |-> alpha, z1 |-> z1, z2 |-> z2], C |-> C,
       transcript |-> c.tr, random_tape |-> t2.tr, panic |-> FALSE]

KnowledgeProof_prove(gens_n, transcript, random_tape, x, r) ==
  LET tr0   == append_protocol_name(transcript, "knowledge proof")
      t1    == random_scalar(random_tape, "t1")
      t2    == random_scalar(t1.tr, "t2")
      C     == commit_scalar(x, r, gens_n)
      tr1   == append_point(tr0, "C", C)
      alpha == commit_scalar(t1.val, t2.val, gens_n)
      tr2   == append_point(tr1, "alpha", alpha)
      c     == challenge_scalar(tr2, "c")
      z1    == fadd(fmul(x, c.val), t1.val)
      z2    == fadd(fmul(r, c.val), t2.val)
  IN  IF ~commit_scalar_ok(gens_n)
      THEN [panic |-> TRUE]
      ELSE [proof |-> [alpha |-> alpha, z1 |-> z1, z2 |-> z2], C |-> C,
            transcript |-> c.tr, random_tape |-> t2.tr, panic |-> FALSE]

KnowledgeProof_verify_named_lax(protocol_name, proof, gens_n, transcript, C) ==
  LET tr0 == append_protocol_name(transcript, protocol_name)
      tr1 == append_point(tr0, "C", C)
      tr2 == append_point(tr1, "alpha", proof.alpha)
      c   == challenge_scalar(tr2, "c")
  IN  [result |-> "Ok", transcript |-> c.tr]

\* KnowledgeProof::verify, with the tag protocol_name() returns as a parameter.
KnowledgeProof_verify_named(protocol_name, proof, gens_n, transcript, C) ==
  LET tr0 == append_protocol_name(transcript, protocol_name)
      tr1 == append_point(tr0, "C", C)
      tr2 == append_point(tr1, "alpha", proof.alpha)
      c   == challenge_scalar(tr2, "c")
      lhs == commit_scalar(proof.z1, proof.z2, gens_n)
      rhs == gadd(gmul(C, c.val), proof.alpha)
  IN  IF ~commit_scalar_ok(gens_n)
      THEN [result |-> "Panic", transcript |-> c.tr]
      ELSE [result |-> IF lhs = rhs THEN "Ok" ELSE "Err", transcript |-> c.tr]

\* KnowledgeProof::verify
KnowledgeProof_verify(proof, gens_n, transcript, C) ==
  KnowledgeProof_verify_named("knowledge proof", proof, gens_n, transcript, C)

(***************************************************************************)
(* EqualityProof                                                           *)
(***************************************************************************)
EqualityProof_prove_swapped(gens_n, transcript, random_tape, v1, s1, v2, s2) ==
  LET tr0   == append_protocol_name(transcript, "equality proof")
      r     == random_scalar(random_tape, "r")
      C1    == commit_scalar(v1, s1, gens_n)
      tr1   == append_point(tr0, "C1", C1)
      C2    == commit_scalar(v2, s2, gens_n)
      tr2   == append_point(tr1, "C2", C2)
      alpha == gmul(gens_n.h, r.val)
      tr3   == append_point(tr2, "alpha", alpha)
      c     == challenge_scalar(tr3, "c")
      z     == fadd(fmul(c.val, fsub(s2, s1)), r.val)
  IN  [proof |-> [alpha |-> alpha, z |-> z], C1 |-> C1, C2 |-> C2,
       transcript |-> c.tr, random_tape |-> r.tr, panic |-> FALSE]

EqualityProof_prove(gens_n, transcript, random_tape, v1, s1, v2, s2) ==
  LET tr0   == append_protocol_name(transcript, "equality proof")
      r     == random_scalar(random_tape, "r")
      C1    == commit_scalar(v1, s1, gens_n)
      tr1   == append_point(tr0, "C1", C1)
      C2    == commit_scalar(v2, s2, gens_n)
      tr2   == append_point(tr1, "C2", C2)
      alpha == gmul(gens_n.h, r.val)
      tr3   == append_point(tr2, "alpha", alpha)
      c     == challenge_scalar(tr3, "c")
      z     == fadd(fmul(c.val, fsub(s1, s2)), r.val)
  IN  IF ~commit_scalar_ok(gens_n)
      THEN [panic |-> TRUE]
      ELSE [proof |-> [alpha |-> alpha, z |-> z], C1 |-> C1, C2 |-> C2,
            transcript |-> c.tr, random_tape |-> r.tr, panic |-> FALSE]

\* EqualityProof::verify, with the tag protocol_name() returns as a parameter.
EqualityProof_verify_named(protocol_name, proof, gens_n, transcript, C1, C2) ==
  LET tr0 == append_protocol_name(transcript, protocol_name)
      tr1 == append_point(tr0, "C1", C1)
      tr2 == append_point(tr1, "C2", C2)
      tr3 == append_point(tr2, "alpha", proof.alpha)
      c   == challenge_scalar(tr3, "c")
      rhs == gadd(gmul(gsub(C1, C2), c.val), proof.alpha)
      lhs == gmul(gens_n.h, proof.z)
  IN  [result |-> IF lhs = rhs THEN "Ok" ELSE "Err", transcript |-> c.tr]

\* EqualityProof::verify
EqualityProof_verify(proof, gens_n, transcript, C1, C2) ==
  EqualityProof_verify_named("equality proof", proof, gens_n, transcript, C1, C2)

(***************************************************************************)
(* ProductProof                                                            *)
(***************************************************************************)
ProductProof_prove_plainz5(gens_n, transcript, random_tape, x, rX, y, rY, z, rZ) ==
  LET tr0   == append_protocol_name(transcript, "product proof")
      b1    == random_scalar(random_tape, "b1")
      b2    == random_scalar(b1.tr, "b2")
      b3    == random_scalar(b2.tr, "b3")
      b4    == random_scalar(b3.tr, "b4")
      b5    == random_scalar(b4.tr, "b5")
      X     == commit_scalar(x, rX, gens_n)
      tr1   == append_point(tr0, "X", X)
      Y     == commit_scalar(y, rY, gens_n)
      tr2   == append_point(tr1, "Y", Y)
      Z     == commit_scalar(z, rZ, gens_n)
      tr3   == append_point(tr2, "Z", Z)
      alpha == commit_scalar(b1.val, b2.val, gens_n)
      tr4   == append_point(tr3, "alpha", alpha)
      beta  == commit_scalar(b3.val, b4.val, gens_n)
      tr5   == append_point(tr4, "beta", beta)
      gens_X == [n |-> 1, G |-> << X >>, h |-> gens_n.h]
      delta == commit_scalar(b3.val, b5.val, gens_X)
      tr6   == append_point(tr5, "delta", delta)
      c     == challenge_scalar(tr6, "c")
      z1    == fadd(b1.val, fmul(c.val, x))
      z2    == fadd(b2.val, fmul(c.val, rX))
      z3    == fadd(b3.val, fmul(c.val, y))
      z4    == fadd(b4.val, fmul(c.val, rY))
      z5    == fadd(b5.val, fmul(c.val, rZ))
  IN  [proof |-> [alpha |-> alpha, beta |-> beta, delta |-> delta,
                  z |-> << z1, z2, z3, z4, z5 >>],
       X |-> X, Y |-> Y, Z |-> Z,
       transcript |-> c.tr, random_tape |-> b5.tr, panic |-> FALSE]

ProductProof_prove(gens_n, transcript, random_tape, x, rX, y, rY, z, rZ) ==
  LET tr0   == append_protocol_name(transcript, "product proof")
      b1    == random_scalar(random_tape, "b1")
      b2    == random_scalar(b1.tr, "b2")
      b3    == random_scalar(b2.tr, "b3")
      b4    == random_scalar(b3.tr, "b4")
      b5    == random_scalar(b4.tr, "b5")
      X     == commit_scalar(x, rX, gens_n)
      tr1   == append_point(tr0, "X", X)
      Y     == commit_scalar(y, rY, gens_n)
      tr2   == append_point(tr1, "Y", Y)
      Z     == commit_scalar(z, rZ, gens_n)
      tr3   == append_point(tr2, "Z", Z)
      alpha == commit_scalar(b1.val, b2.val, gens_n)
      tr4   == append_point(tr3, "alpha", alpha)
      beta  == commit_scalar(b3.val, b4.val, gens_n)
      tr5   == append_point(tr4, "beta", beta)
      gens_X == [n |-> 1, G |-> << X >>, h |-> gens_n.h]
      delta == commit_scalar(b3.val, b5.val, gens_X)
      tr6   == append_point(tr5, "delta", delta)
      c     == challenge_scalar(tr6, "c")
      z1    == fadd(b1.val, fmul(c.val, x))
      z2    == fadd(b2.val, fmul(c.val, rX))
      z3    == fadd(b3.val, fmul(c.val, y))
      z4    == fadd(b4.val, fmul(c.val, rY))
      z5    == fadd(b5.val, fmul(c.val, fsub(rZ, fmul(rX, y))))
  IN  IF ~commit_scalar_ok(gens_n)
      THEN [panic |-> TRUE]
      ELSE [proof |-> [alpha |-> alpha, beta |-> beta, delta |-> delta,
                       z |-> << z1, z2, z3, z4, z5 >>],
            X |-> X, Y |-> Y, Z |-> Z,
            transcript |-> c.tr, random_tape |-> b5.tr, panic |-> FALSE]

\* ProductProof::check_equality
check_equality(Pt, X, c, gens_n, z1, z2) ==
  gadd(Pt, gmul(X, c)) = commit_scalar(z1, z2, gens_n)

ProductProof_verify_named_betafirst(protocol_name, proof, gens_n, transcript, X, Y, Z) ==
  LET tr0 == append_protocol_name(transcript, protocol_name)
      tr1 == append_point(tr0, "X", X)
      tr2 == append_point(tr1, "Y", Y)
      tr3 == append_point(tr2, "Z", Z)
      tr4 == append_point(tr3, "beta", proof.beta)
      tr5 == append_point(tr4, "alpha", proof.alpha)
      tr6 == append_point(tr5, "delta", proof.delta)
      c   == challenge_scalar(tr6, "c")
      gens_X == [n |-> 1, G |-> << X >>, h |-> gens_n.h]
  IN  [result |->
         IF /\ check_equality(proof.alpha, X, c.val, gens_n, proof.z[1], proof.z[2])
            /\ check_equality(proof.beta, Y, c.val, gens_n, proof.z[3], proof.z[4])
            /\ check_equality(proof.delta, Z, c.val, gens_X, proof.z[3], proof.z[5])
         THEN "Ok" ELSE "Err",
       transcript |-> c.tr]

\* ProductProof::verify, with the tag protocol_name() returns as a parameter.
ProductProof_verify_named(protocol_name, proof, gens_n, transcript, X, Y, Z) ==
  LET tr0 == append_protocol_name(transcript, protocol_name)
      tr1 == append_point(tr0, "X", X)
      tr2 == append_point(tr1, "Y", Y)
      tr3 == append_point(tr2, "Z", Z)
      tr4 == append_point(tr3, "alpha", proof.alpha)
      tr5 == append_point(tr4, "beta", proof.beta)
      tr6 == append_point(tr5, "delta", proof.delta)
      z1  == proof.z[1]
      z2  == proof.z[2]
      z3  == proof.z[3]
      z4  == proof.z[4]
      z5  == proof.z[5]
      c   == challenge_scalar(tr6, "c")
      gens_X == [n |-> 1, G |-> << X >>, h |-> gens_n.h]
  IN  IF ~commit_scalar_ok(gens_n)
      THEN [result |-> "Panic", transcript |-> c.tr]
      ELSE [result |->
              IF /\ check_equality(proof.alpha, X, c.val, gens_n, z1, z2)
                 /\ check_equality(proof.beta, Y, c.val, gens_n, z3, z4)
                 /\ check_equality(proof.delta, Z, c.val, gens_X, z3, z5)
              THEN "Ok" ELSE "Err",
            transcript |-> c.tr]

ProductProof_verify_nodelta(proof, gens_n, transcript, X, Y, Z) ==
  LET tr0 == append_protocol_name(transcript, "product proof")
      tr1 == append_point(tr0, "X", X)
      tr2 == append_point(tr1, "Y", Y)
      tr3 == append_point(tr2, "Z", Z)
      tr4 == append_point(tr3, "alpha", proof.alpha)
      tr5 == append_point(tr4, "beta", proof.beta)
      tr6 == append_point(tr5, "delta", proof.delta)
      c   == challenge_scalar(tr6, "c")
  IN  [result |->
         IF /\ check_equality(proof.alpha, X, c.val, gens_n, proof.z[1], proof.z[2])
            /\ check_equality(proof.beta, Y, c.val, gens_n, proof.z[3], proof.z[4])
         THEN "Ok" ELSE "Err",
       transcript |-> c.tr]

\* ProductProof::verify
ProductProof_verify(proof, gens_n, transcript, X, Y, Z) ==
  ProductProof_verify_named("product proof", proof, gens_n, transcript, X, Y, Z)

(***************************************************************************)
(* DotProductProof (linear size)                                           *)
(***************************************************************************)
\* DotProductProof::compute_dotproduct; assert_eq!(a.len(), b.len()) guards it.
compute_dotproduct(a, b) ==
  SumSeq([i \in 1 .. Len(a) |-> fmul(a[i], b[i])])

DotProductProof_prove_sharedblind(gens_1, gens_n, transcript, random_tape, x_vec, blind_x, a_vec, y, blind_y) ==
  LET tr0     == append_protocol_name(transcript, "dot product proof")
      n       == Len(x_vec)
      d_vec   == random_vector(random_tape, "d_vec", n)
      r_delta == random_scalar(d_vec.tr, "r_delta")
      r_beta  == random_scalar(r_delta.tr, "r_beta")
      Cx      == commit_vec(x_vec, blind_x, gens_n)
      tr1     == append_point(tr0, "Cx", Cx)
      Cy      == commit_scalar(y, blind_y, gens_1)
      tr2     == append_point(tr1, "Cy", Cy)
      tr3     == append_vector_to_transcript(tr2, "a", a_vec)
      delta   == commit_vec(d_vec.val, r_delta.val, gens_n)
      tr4     == append_point(tr3, "delta", delta)
      dotproduct_a_d == compute_dotproduct(a_vec, d_vec.val)
      beta    == commit_scalar(dotproduct_a_d, r_beta.val, gens_1)
      tr5     == append_point(tr4, "beta", beta)
      c       == challenge_scalar(tr5, "c")
      z       == [i \in 1 .. n |-> fadd(fmul(c.val, x_vec[i]), d_vec.val[i])]
      z_delta == fadd(fmul(c.val, blind_x), r_delta.val)
      z_beta  == fadd(fmul(c.val, blind_y), r_delta.val)
  IN  [proof |-> [delta |-> delta, beta |-> beta, z |-> z,
                  z_delta |-> z_delta, z_beta |-> z_beta],
       Cx |-> Cx, Cy |-> Cy,
       transcript |-> c.tr, random_tape |-> r_beta.tr, panic |-> FALSE]

DotProductProof_prove(gens_1, gens_n, transcript, random_tape, x_vec, blind_x, a_vec, y, blind_y) ==
  LET tr0     == append_protocol_name(transcript, "dot product proof")
      n       == Len(x_vec)
      d_vec   == random_vector(random_tape, "d_vec", n)
      r_delta == random_scalar(d_vec.tr, "r_delta")
      r_beta  == random_scalar(r_delta.tr, "r_beta")
      Cx      == commit_vec(x_vec, blind_x, gens_n)
      tr1     == append_point(tr0, "Cx", Cx)
      Cy      == commit_scalar(y, blind_y, gens_1)
      tr2     == append_point(tr1, "Cy", Cy)
      tr3     == append_vector_to_transcript(tr2, "a", a_vec)
      delta   == commit_vec(d_vec.val, r_delta.val, gens_n)
      tr4     == append_point(tr3, "delta", delta)
      dotproduct_a_d == compute_dotproduct(a_vec, d_vec.val)
      beta    == commit_scalar(dotproduct_a_d, r_beta.val, gens_1)
      tr5     == append_point(tr4, "beta", beta)
      c       == challenge_scalar(tr5, "c")
      z       == [i \in 1 .. n |-> fadd(fmul(c.val, x_vec[i]), d_vec.val[i])]
      z_delta == fadd(fmul(c.val, blind_x), r_delta.val)
      z_beta  == fadd(fmul(c.val, blind_y), r_beta.val)
  IN  IF \/ Len(x_vec) # Len(a_vec)
         \/ gens_n.n # Len(a_vec)
         \/ gens_1.n # 1
      THEN [panic |-> TRUE]
      ELSE [proof |-> [delta |-> delta, beta |-> beta, z |-> z,
                       z_delta |-> z_delta, z_beta |-> z_beta],
            Cx |-> Cx, Cy |-> Cy,
            transcript |-> c.tr, random_tape |-> r_beta.tr, panic |-> FALSE]

\* DotProductProof::verify, with the tag protocol_name() returns as a parameter.
DotProductProof_verify_named(protocol_name, proof, gens_1, gens_n, transcript, a, Cx, Cy) ==
  LET tr0 == append_protocol_name(transcript, protocol_name)
      tr1 == append_point(tr0, "Cx", Cx)
      tr2 == append_point(tr1, "Cy", Cy)
      tr3 == append_vector_to_transcript(tr2, "a", a)
      tr4 == append_point(tr3, "delta", proof.delta)
      tr5 == append_point(tr4, "beta", proof.beta)
      c   == challenge_scalar(tr5, "c")
      result1 == gadd(gmul(Cx, c.val), proof.delta)
                   = commit_vec(proof.z, proof.z_delta, gens_n)
      dotproduct_z_a == compute_dotproduct(proof.z, a)
      result2 == gadd(gmul(Cy, c.val), proof.beta)
                   = commit_scalar(dotproduct_z_a, proof.z_beta, gens_1)
  IN  IF gens_n.n # Len(a) \/ gens_1.n # 1
      THEN \* assert_eq!(gens_n.n, a.len()); assert_eq!(gens_1.n, 1)
           [result |-> "Panic", transcript |-> transcript]
      ELSE IF ~commit_vec_ok(proof.z, gens_n) \/ Len(proof.z) # Len(a)
      THEN \* the assertions of commit and of compute_dotproduct
           [result |-> "Panic", transcript |-> c.tr]
      ELSE [result |-> IF result1 /\ result2 THEN "Ok" ELSE "Err",
            transcript |-> c.tr]

\* DotProductProof::verify
DotProductProof_verify(proof, gens_1, gens_n, transcript, a, Cx, Cy) ==
  DotProductProof_verify_named("dot product proof", proof, gens_1, gens_n, transcript, a, Cx, Cy)

(***************************************************************************)
(* DotProductProofGens                                                     *)
(***************************************************************************)
DotProductProofGens_new(n, label) ==
  LET pair == split_at(MultiCommitGens_new(n + 1, label), n)
  IN  [n |-> n, gens_n |-> pair[1], gens_1 |-> pair[2]]

(***************************************************************************)
(* BulletReductionProof (nizk/bullet.rs): the inner-product reduction with *)
(* a blinding trail.  One round halves the vectors; the output is the      *)
(* sequence of (L_i, R_i), the folded x, a, g and the final blind.         *)
(***************************************************************************)
\* Math::log_2 of a power of two.
RECURSIVE log_2(_)
log_2(n) == IF n <= 1 THEN 0 ELSE 1 + log_2(n \div 2)

\* sum_i v[i] * g[i] for scalars v and group elements g of the same length.
inner_product_group(v, g) == SumSeq([i \in 1 .. Len(v) |-> gmul(g[i], v[i])])

RECURSIVE bullet_prove_rounds(_, _, _, _, _, _, _, _, _)
bullet_prove_rounds(st, Q, H, x, a, g, blind, blinds_vec, round) ==
  IF Len(x) <= 1 \/ st.panic
  THEN [st EXCEPT !.x = x, !.a = a, !.g = g, !.blind = blind]
  ELSE
    LET half == Len(x) \div 2
        xL == SubSeq(x, 1, half)   xR == SubSeq(x, half + 1, Len(x))
        aL == SubSeq(a, 1, half)   aR == SubSeq(a, half + 1, Len(a))
        gL == SubSeq(g, 1, half)   gR == SubSeq(g, half + 1, Len(g))
        cL == compute_dotproduct(xL, aR)
        cR == compute_dotproduct(xR, aL)
        sL == blinds_vec[round][1]
        sR == blinds_vec[round][2]
        Lp == gadd(gadd(inner_product_group(xL, gR), gmul(Q, cL)), gmul(H, sL))
        Rp == gadd(gadd(inner_product_group(xR, gL), gmul(Q, cR)), gmul(H, sR))
        \* the fold once the challenge u is drawn; ui is its inverse
        fold(Lv, Rv, u, ui) ==
          LET x2 == [k \in 1 .. half |-> fadd(fmul(u.val, xL[k]), fmul(ui, xR[k]))]
              a2 == [k \in 1 .. half |-> fadd(fmul(ui, aL[k]), fmul(u.val, aR[k]))]
              g2 == [k \in 1 .. half |-> gadd(gmul(gL[k], ui), gmul(gR[k], u.val))]
              blind2 == fadd(blind, fadd(fmul(fmul(u.val, u.val), sL),
                                         fmul(fmul(ui, ui), sR)))
              st2 == [st EXCEPT !.tr = u.tr, !.L_vec = Append(st.L_vec, Lv),
                                !.R_vec = Append(st.R_vec, Rv)]
          IN  bullet_prove_rounds(st2, Q, H, x2, a2, g2, blind2, blinds_vec,
                                  round + 1)
        challenged(Lv, Rv, u) ==
          IF u.val = 0
          THEN [st EXCEPT !.panic = TRUE, !.tr = u.tr]
          ELSE fold(Lv, Rv, u, finv(u.val))
        round_of(Lv, Rv) ==
          challenged(Lv, Rv,
                     challenge_scalar(append_point(append_point(st.tr, "L", Lv),
                                                   "R", Rv), "u"))
    IN  round_of(Lp, Rp)

BulletReductionProof_prove(transcript, Q, G_vec, H, x_vec, a_vec, blind, blinds_vec) ==
  LET tr0 == append_protocol_name(transcript, "bullet reduction proof")
      st0 == [tr |-> tr0, L_vec |-> << >>, R_vec |-> << >>, panic |-> FALSE,
              x |-> x_vec, a |-> a_vec, g |-> G_vec, blind |-> blind]
      result(fin) ==
        IF fin.panic
        THEN [panic |-> TRUE]
        ELSE [proof |-> [L_vec |-> fin.L_vec, R_vec |-> fin.R_vec],
              x_hat |-> fin.x[1], a_hat |-> fin.a[1], g_hat |-> fin.g[1],
              rhat_Gamma |-> fin.blind, transcript |-> fin.tr, panic |-> FALSE]
  IN  result(bullet_prove_rounds(st0, Q, H, x_vec, a_vec, G_vec, blind,
                                 blinds_vec, 1))

\* The challenges u_1 .. u_k recomputed by the verifier from L_i, R_i.
RECURSIVE bullet_challenges(_, _, _)
bullet_challenges(tr, proof, round) ==
  IF round > Len(proof.L_vec) THEN [val |-> << >>, tr |-> tr]
  ELSE LET tr1 == append_point(tr, "L", proof.L_vec[round])
           tr2 == append_point(tr1, "R", proof.R_vec[round])
           u == challenge_scalar(tr2, "u")
           rest == bullet_challenges(u.tr, proof, round + 1)
       IN  [val |-> << u.val >> \o rest.val, tr |-> rest.tr]

\* Bit j (1 = most significant of lg bits) of the 0-based index k.
index_bit(k, j, lg) == (k \div (2 ^ (lg - j))) % 2

\* The weight of generator k: the product over the rounds of u_j or its
\* inverse, by the bits of k.
RECURSIVE s_weight(_, _, _, _)
s_weight(k, us, j, lg) ==
  IF j > lg THEN 1
  ELSE fmul(IF index_bit(k, j, lg) = 1 THEN us[j] ELSE finv(us[j]),
            s_weight(k, us, j + 1, lg))

BulletReductionProof_verify(proof, n, a, transcript, Gamma, G_vec) ==
  LET lg == log_2(n)
      tr0 == append_protocol_name(transcript, "bullet reduction proof")
      ch == bullet_challenges(tr0, proof, 1)
      us == ch.val
      s == [k \in 1 .. n |-> s_weight(k - 1, us, 1, lg)]
      \* a folds with the same weights as g
      g_hat == inner_product_group(s, G_vec)
      a_hat == compute_dotproduct(s, a)
      Gamma_hat ==
        gadd(Gamma,
             SumSeq([j \in 1 .. lg |->
                       gadd(gmul(proof.L_vec[j], fmul(us[j], us[j])),
                            gmul(proof.R_vec[j],
                                 fmul(finv(us[j]), finv(us[j]))))]))
  IN  IF \/ Len(proof.L_vec) # lg
         \/ Len(proof.R_vec) # lg
         \/ Len(G_vec) # n
         \/ \E j \in 1 .. Len(us) : us[j] = 0
      THEN [result |-> "Err", transcript |-> ch.tr]
      ELSE [result |-> "Ok", g_hat |-> g_hat, Gamma_hat |-> Gamma_hat,
            a_hat |-> a_hat, transcript |-> ch.tr]

(***************************************************************************)
(* DotProductProofLog                                                      *)
(***************************************************************************)
\* The per-round blinding pairs: v1 and v2 of length 2 * log_2(n), zipped.
blinds_pairs(v1, v2) == [i \in 1 .. Len(v1) |-> << v1[i], v2[i] >>]

DotProductProofLog_prove_dropbeta(gens, transcript, random_tape, x_vec, blind_x, a_vec, y, blind_y) ==
  LET tr0     == append_protocol_name(transcript, "dot product proof (log)")
      n       == Len(x_vec)
      d       == random_scalar(random_tape, "d")
      r_delta == random_scalar(d.tr, "r_delta")
      \* the label "r_delta" is used a second time for r_beta
      r_beta  == random_scalar(r_delta.tr, "r_delta")
      v1      == random_vector(r_beta.tr, "blinds_vec_1", 2 * log_2(n))
      v2      == random_vector(v1.tr, "blinds_vec_2", 2 * log_2(n))
      blinds_vec == blinds_pairs(v1.val, v2.val)
      Cx      == commit_vec(x_vec, blind_x, gens.gens_n)
      tr1     == append_point(tr0, "Cx", Cx)
      Cy      == commit_scalar(y, blind_y, gens.gens_1)
      tr2     == append_point(tr1, "Cy", Cy)
      tr3     == append_vector_to_transcript(tr2, "a", a_vec)
      blind_Gamma == fadd(blind_x, blind_y)
      \* the responses once the challenge c is drawn
      respond(b, dv, rd, rb, delta, beta, c, tape) ==
        LET y_hat == fmul(b.x_hat, b.a_hat)
            z1    == fadd(dv, fmul(c.val, y_hat))
            z2    == fadd(fmul(b.a_hat, fmul(c.val, b.rhat_Gamma)), rd)
        IN  [proof |-> [bullet_reduction_proof |-> b.proof, delta |-> delta,
                        beta |-> beta, z1 |-> z1, z2 |-> z2],
             Cx |-> Cx, Cy |-> Cy,
             transcript |-> c.tr, random_tape |-> tape, panic |-> FALSE]
      committed(b, dv, rd, rb, delta, beta, tape) ==
        respond(b, dv, rd, rb, delta, beta,
                challenge_scalar(append_point(append_point(b.transcript, "delta", delta),
                                              "beta", beta), "c"),
                tape)
      \* after the Bullet reduction returned b
      reduced(b, dv, rd, rb, tape) ==
        IF b.panic
        THEN [panic |-> TRUE]
        ELSE committed(b, dv, rd, rb,
                       commit_scalar(dv, rd, [n |-> 1, G |-> << b.g_hat >>,
                                              h |-> gens.gens_1.h]),
                       commit_scalar(dv, rb, gens.gens_1),
                       tape)
  IN  IF Len(x_vec) # Len(a_vec) \/ gens.n # n
      THEN [panic |-> TRUE]
      ELSE reduced(BulletReductionProof_prove(tr3, gens.gens_1.G[1], gens.gens_n.G, gens.gens_n.h, x_vec, a_vec, blind_Gamma, blinds_vec),
              d.val, r_delta.val, r_beta.val, v2.tr)

DotProductProofLog_prove(gens, transcript, random_tape, x_vec, blind_x, a_vec, y, blind_y) ==
  LET tr0     == append_protocol_name(transcript, "dot product proof (log)")
      n       == Len(x_vec)
      d       == random_scalar(random_tape, "d")
      r_delta == random_scalar(d.tr, "r_delta")
      \* the label "r_delta" is used a second time for r_beta
      r_beta  == random_scalar(r_delta.tr, "r_delta")
      v1      == random_vector(r_beta.tr, "blinds_vec_1", 2 * log_2(n))
      v2      == random_vector(v1.tr, "blinds_vec_2", 2 * log_2(n))
      blinds_vec == blinds_pairs(v1.val, v2.val)
      Cx      == commit_vec(x_vec, blind_x, gens.gens_n)
      tr1     == append_point(tr0, "Cx", Cx)
      Cy      == commit_scalar(y, blind_y, gens.gens_1)
      tr2     == append_point(tr1, "Cy", Cy)
      tr3     == append_vector_to_transcript(tr2, "a", a_vec)
      blind_Gamma == fadd(blind_x, blind_y)
      \* the responses once the challenge c is drawn
      respond(b, dv, rd, rb, delta, beta, c, tape) ==
        LET y_hat == fmul(b.x_hat, b.a_hat)
            z1    == fadd(dv, fmul(c.val, y_hat))
            z2    == fadd(fmul(b.a_hat, fadd(fmul(c.val, b.rhat_Gamma), rb)), rd)
        IN  [proof |-> [bullet_reduction_proof |-> b.proof, delta |-> delta,
                        beta |-> beta, z1 |-> z1, z2 |-> z2],
             Cx |-> Cx, Cy |-> Cy,
             transcript |-> c.tr, random_tape |-> tape, panic |-> FALSE]
      committed(b, dv, rd, rb, delta, beta, tape) ==
        respond(b, dv, rd, rb, delta, beta,
                challenge_scalar(append_point(append_point(b.transcript, "delta", delta),
                                              "beta", beta), "c"),
                tape)
      \* after the Bullet reduction returned b
      reduced(b, dv, rd, rb, tape) ==
        IF b.panic
        THEN [panic |-> TRUE]
        ELSE committed(b, dv, rd, rb,
                       commit_scalar(dv, rd, [n |-> 1, G |-> << b.g_hat >>,
                                              h |-> gens.gens_1.h]),
                       commit_scalar(dv, rb, gens.gens_1),
                       tape)
  IN  IF Len(x_vec) # Len(a_vec) \/ gens.n # n
      THEN [panic |-> TRUE]
      ELSE reduced(BulletReductionProof_prove(tr3, gens.gens_1.G[1], gens.gens_n.G, gens.gens_n.h, x_vec, a_vec, blind_Gamma, blinds_vec),
              d.val, r_delta.val, r_beta.val, v2.tr)

DotProductProofLog_verify(proof, n, gens, transcript, a, Cx, Cy) ==
  LET tr0   == append_protocol_name(transcript, "dot product proof (log)")
      tr1   == append_point(tr0, "Cx", Cx)
      tr2   == append_point(tr1, "Cy", Cy)
      tr3   == append_vector_to_transcript(tr2, "a", a)
      Gamma == gadd(Cx, Cy)
      b     == BulletReductionProof_verify(proof.bullet_reduction_proof, n, a, tr3, Gamma, gens.gens_n.G)
      tr4   == append_point(b.transcript, "delta", proof.delta)
      tr5   == append_point(tr4, "beta", proof.beta)
      c     == challenge_scalar(tr5, "c")
      lhs   == gadd(gmul(gadd(gmul(b.Gamma_hat, c.val), proof.beta), b.a_hat),
                    proof.delta)
      rhs   == gadd(gmul(gadd(b.g_hat, gmul(gens.gens_1.G[1], b.a_hat)), proof.z1),
                    gmul(gens.gens_1.h, proof.z2))
  IN  IF gens.n # n \/ Len(a) # n
      THEN \* assert_eq!(gens.n, n); assert_eq!(a.len(), n)
           [result |-> "Panic", transcript |-> transcript]
      ELSE IF b.result # "Ok"
      THEN \* the ? on the result of the Bullet verification
           [result |-> "Err", transcript |-> b.transcript]
      ELSE IF lhs # rhs
      THEN \* assert_eq!(lhs, rhs)
           [result |-> "Panic", transcript |-> c.tr]
      ELSE [result |-> IF lhs = rhs THEN "Ok" ELSE "Err", transcript |-> c.tr]

(***************************************************************************)
(* Multilinear polynomials (dense_mlpoly.rs, sparse_mlpoly.rs).  A dense   *)
(* polynomial in k variables is the table of its 2^k evaluations on the    *)
(* Boolean cube; the first variable is the most significant bit of the     *)
(* table index.                                                            *)
(***************************************************************************)
\* eq(r, k) for the 0-based index k: the product over the variables j of
\* r[j] if bit j of k is set and 1 - r[j] otherwise.
RECURSIVE eq_weight(_, _, _)
eq_weight(k, r, j) ==
  IF j > Len(r) THEN 1
  ELSE fmul(IF index_bit(k, j, Len(r)) = 1 THEN r[j] ELSE fsub(1, r[j]),
            eq_weight(k, r, j + 1))

\* EqPolynomial::new(r).evals()
EqPolynomial_evals(r) == [k \in 1 .. (2 ^ Len(r)) |-> eq_weight(k - 1, r, 1)]

\* DensePolynomial::evaluate(r)
DensePolynomial_evaluate(Z, r) == compute_dotproduct(Z, EqPolynomial_evals(r))

\* DensePolynomial::bound_poly_var_top(r): fixes the first variable to r.
bound_poly_var_top(Z, r) ==
  LET half == Len(Z) \div 2
  IN  [i \in 1 .. half |-> fadd(Z[i], fmul(r, fsub(Z[i + half], Z[i])))]

\* SparsePolynomial::new(num_vars, entries).evaluate(r); an entry is the
\* pair (idx, val).
SparsePolynomial_evaluate(num_vars, entries, r) ==
  SumSeq([e \in 1 .. Len(entries) |->
            fmul(entries[e].val, eq_weight(entries[e].idx, r, 1))])

(***************************************************************************)
(* R1CSInstance (r1csinstance.rs): three num_cons x (2 * num_vars)         *)
(* matrices A, B, C, each a sequence of rows.                              *)
(***************************************************************************)
build_z_inputfirst(vars_, input) ==
  vars_ \o input \o << 1 >> \o [i \in 1 .. (Len(vars_) - Len(input) - 1) |-> 0]

\* z = vars || 1 || input || 0-padding, of length 2 * num_vars
build_z(vars_, input) ==
  vars_ \o << 1 >> \o input \o [i \in 1 .. (Len(vars_) - Len(input) - 1) |-> 0]

\* R1CSInstance::multiply_vec(num_rows, num_cols, z)
multiply_vec(inst, num_rows, num_cols, z) ==
  LET mat_vec(M) == [i \in 1 .. num_rows |-> compute_dotproduct(M[i], z)]
  IN  [Az |-> mat_vec(inst.A), Bz |-> mat_vec(inst.B), Cz |-> mat_vec(inst.C)]

\* R1CSInstance::compute_eval_table_sparse(num_rows, num_cols, evals): for
\* every column j, the sum over the rows i of evals[i] * M[i][j].
compute_eval_table_sparse(inst, num_rows, num_cols, evals) ==
  LET vec_mat(M) ==
        [j \in 1 .. num_cols |->
           SumSeq([i \in 1 .. num_rows |-> fmul(evals[i], M[i][j])])]
  IN  [A |-> vec_mat(inst.A), B |-> vec_mat(inst.B), C |-> vec_mat(inst.C)]

\* R1CSInstance::evaluate(rx, ry): the multilinear extensions of A, B and C
\* at (rx, ry).
R1CSInstance_evaluate(inst, rx, ry) ==
  LET mat_evaluate(M) ==
        SumSeq([i \in 1 .. (2 ^ Len(rx)) |->
                  fmul(eq_weight(i - 1, rx, 1),
                       SumSeq([j \in 1 .. (2 ^ Len(ry)) |->
                                 fmul(M[i][j], eq_weight(j - 1, ry, 1))]))])
  IN  << mat_evaluate(inst.A), mat_evaluate(inst.B), mat_evaluate(inst.C) >>

\* R1CSInstance::is_sat(vars, input)
is_sat(inst, vars_, input) ==
  LET z == build_z(vars_, input)
  IN  \A i \in 1 .. inst.num_cons :
        fmul(compute_dotproduct(inst.A[i], z), compute_dotproduct(inst.B[i], z))
          = compute_dotproduct(inst.C[i], z)

(***************************************************************************)
(* The zero-knowledge sum-check (sumcheck.rs).  A round commits to the     *)
(* round polynomial g by its evaluations at 0 .. degree, proves that       *)
(* g(0) + g(1) is the value of the committed claim, draws the challenge r, *)
(* and replaces the claim by a commitment to g(r), proved to be the        *)
(* matching linear combination of the committed evaluations.               *)
(***************************************************************************)
\* The combination function of phase one.
comb_func_phase_one(poly_A_comp, poly_B_comp, poly_C_comp, poly_D_comp) ==
  fmul(poly_A_comp, fsub(fmul(poly_B_comp, poly_C_comp), poly_D_comp))

\* The combination function of phase two.
comb_func_phase_two(poly_A_comp, poly_B_comp) == fmul(poly_A_comp, poly_B_comp)

\* g(t): the sum over the remaining cube of the combination of the tables,
\* each taken at X = t in its first variable.
round_eval(tables, degree, t) ==
  LET table_at(T, i) == fadd(T[i], fmul(t, fsub(T[i + (Len(T) \div 2)], T[i])))
  IN  SumSeq([i \in 1 .. (Len(tables[1]) \div 2) |->
                IF degree = 3
                THEN comb_func_phase_one(table_at(tables[1], i), table_at(tables[2], i),
                                         table_at(tables[3], i), table_at(tables[4], i))
                ELSE comb_func_phase_two(table_at(tables[1], i), table_at(tables[2], i))])

\* The weights of g(0) + g(1) over the evaluations g(0), ..., g(degree).
sum_weights(degree) == [k \in 1 .. (degree + 1) |-> IF k <= 2 THEN 1 ELSE 0]

\* The Lagrange basis over the nodes 0 .. degree, evaluated at r.
RECURSIVE lagrange_prod(_, _, _, _)
lagrange_prod(r, k, j, degree) ==
  IF j > degree THEN 1
  ELSE fmul(IF j = k THEN 1 ELSE fmul(fsub(r, j), finv(fsub(k, j))),
            lagrange_prod(r, k, j + 1, degree))

eval_weights(r, degree) ==
  [k \in 1 .. (degree + 1) |-> lagrange_prod(r, k - 1, 0, degree)]

\* One round of the prover.  st carries the transcript, the tape, the
\* challenges and the round proofs so far; c carries the claim, its blind,
\* the tables, the degree, the generators and the number of rounds left.
RECURSIVE zk_sumcheck_rounds(_, _)

\* the round is over: fold the tables at r, the claim becomes g(r)
sumcheck_round_done(st, c, p1, r, be, w, p2) ==
  IF p2.panic
  THEN [panic |-> TRUE]
  ELSE zk_sumcheck_rounds(
         [st EXCEPT !.tr = p2.transcript, !.tape = p2.random_tape,
                    !.r = Append(st.r, r.val),
                    !.proof = Append(st.proof,
                                     [comm_poly |-> p1.Cx, comm_eval |-> p2.Cy,
                                      proof_sum |-> p1.proof,
                                      proof_eval |-> p2.proof])],
         [c EXCEPT !.claim = compute_dotproduct(c.evals, w),
                   !.blind_claim = be.val,
                   !.tables = [k \in 1 .. Len(c.tables) |->
                                 bound_poly_var_top(c.tables[k], r.val)],
                   !.rounds_left = c.rounds_left - 1])

\* commit to g(r) with the blind be and prove it against the committed g
sumcheck_round_eval(st, c, bp, p1, r, be, w) ==
  sumcheck_round_done(st, c, p1, r, be, w,
                      DotProductProof_prove(c.gens_1, c.gens_n, r.tr, be.tr, c.evals,
                                            bp.val, w, compute_dotproduct(c.evals, w),
                                            be.val))

\* draw the challenge r and the blind of the next claim
sumcheck_round_summed(st, c, bp, p1) ==
  IF p1.panic
  THEN [panic |-> TRUE]
  ELSE sumcheck_round_eval(
         st, c, bp, p1,
         challenge_scalar(p1.transcript, "challenge_nextround"),
         random_scalar(p1.random_tape, "blinds_evals"),
         eval_weights(challenge_scalar(p1.transcript, "challenge_nextround").val,
                      c.degree))

\* commit to g with the blind bp and prove g(0) + g(1) = claim
sumcheck_round_commit(st, c, bp) ==
  sumcheck_round_summed(
    st, c, bp,
    DotProductProof_prove(c.gens_1, c.gens_n,
                          append_point(st.tr, "comm_poly",
                                       commit_vec(c.evals, bp.val, c.gens_n)),
                          bp.tr, c.evals, bp.val, sum_weights(c.degree), c.claim,
                          c.blind_claim))

zk_sumcheck_rounds(st, c) ==
  IF c.rounds_left = 0
  THEN [proof |-> st.proof, r |-> st.r,
        claims |-> [k \in 1 .. Len(c.tables) |-> c.tables[k][1]],
        blind_claim_postsc |-> c.blind_claim, transcript |-> st.tr,
        random_tape |-> st.tape, panic |-> FALSE]
  ELSE sumcheck_round_commit(
         st,
         [c EXCEPT !.evals = [k \in 1 .. (c.degree + 1) |->
                                round_eval(c.tables, c.degree, k - 1)]],
         random_scalar(st.tape, "blinds_poly"))

\* ZKSumcheckInstanceProof::prove_cubic_with_additive_term (degree 3, four
\* tables) and ZKSumcheckInstanceProof::prove_quad (degree 2, two tables).
ZKSumcheckInstanceProof_prove(claim, blind_claim, num_rounds, tables, degree, gens_1, gens_n, transcript, random_tape) ==
  zk_sumcheck_rounds(
    [tr |-> append_protocol_name(transcript, "zk sumcheck proof"),
     tape |-> random_tape, r |-> << >>, proof |-> << >>],
    [claim |-> claim, blind_claim |-> blind_claim, tables |-> tables,
     degree |-> degree, gens_1 |-> gens_1, gens_n |-> gens_n,
     rounds_left |-> num_rounds, evals |-> << >>])

\* One round of the verifier, on the round proof number c.round.
RECURSIVE zk_sumcheck_verify_rounds(_, _)

sumcheck_verify_round_done(st, c, r, v2) ==
  zk_sumcheck_verify_rounds(
    [st EXCEPT !.tr = v2.transcript, !.r = Append(st.r, r.val),
               !.result = v2.result],
    [c EXCEPT !.comm_claim = c.proof[c.round].comm_eval, !.round = c.round + 1])

sumcheck_verify_round_eval(st, c, r) ==
  sumcheck_verify_round_done(
    st, c, r,
    DotProductProof_verify(c.proof[c.round].proof_eval, c.gens_1, c.gens_n, r.tr,
                           eval_weights(r.val, c.degree),
                           c.proof[c.round].comm_poly, c.proof[c.round].comm_eval))

sumcheck_verify_round_summed(st, c, v1) ==
  IF v1.result # "Ok"
  THEN [result |-> v1.result, comm_claim_post |-> c.comm_claim, r |-> st.r,
        transcript |-> v1.transcript]
  ELSE sumcheck_verify_round_eval(
         st, c, challenge_scalar(v1.transcript, "challenge_nextround"))

zk_sumcheck_verify_rounds(st, c) ==
  IF c.round > Len(c.proof) \/ st.result # "Ok"
  THEN [result |-> st.result, comm_claim_post |-> c.comm_claim, r |-> st.r,
        transcript |-> st.tr]
  ELSE sumcheck_verify_round_summed(
         st, c,
         DotProductProof_verify(c.proof[c.round].proof_sum, c.gens_1, c.gens_n,
                                append_point(st.tr, "comm_poly",
                                             c.proof[c.round].comm_poly),
                                sum_weights(c.degree), c.proof[c.round].comm_poly,
                                c.comm_claim))

\* ZKSumcheckInstanceProof::verify(comm_claim, num_rounds, degree_bound, ...)
ZKSumcheckInstanceProof_verify(proof, comm_claim, num_rounds, degree_bound, gens_1, gens_n, transcript) ==
  IF Len(proof) # num_rounds \/ gens_n.n # degree_bound + 1
  THEN [result |-> "Err", comm_claim_post |-> comm_claim, r |-> << >>,
        transcript |-> transcript]
  ELSE zk_sumcheck_verify_rounds(
         [tr |-> append_protocol_name(transcript, "zk sumcheck proof"),
          r |-> << >>, result |-> "Ok"],
         [proof |-> proof, comm_claim |-> comm_claim, degree |-> degree_bound,
          gens_1 |-> gens_1, gens_n |-> gens_n, round |-> 1])

(***************************************************************************)
(* The polynomial commitment (dense_mlpoly.rs): the table of a polynomial  *)
(* in k variables is laid out as 2^(k div 2) rows, each row committed      *)
(* with its own blind; an evaluation is opened by a log-size dot-product   *)
(* proof on the combination of the rows.                                   *)
(***************************************************************************)
\* PolyCommitmentGens::new(num_vars, label)
PolyCommitmentGens_new(num_vars, label) ==
  [gens |-> DotProductProofGens_new(2 ^ (num_vars - (num_vars \div 2)), label)]

\* DensePolynomial::commit(gens, Some(random_tape))
DensePolynomial_commit(Z, gens, random_tape) ==
  LET row_len == gens.gens.n
      rows    == Len(Z) \div row_len
      blinds  == random_vector(random_tape, "poly_blinds", rows)
  IN  [comm |-> [C |-> [i \in 1 .. rows |->
                          commit_vec(SubSeq(Z, (i - 1) * row_len + 1, i * row_len),
                                     blinds.val[i],
                                     gens.gens.gens_n)]],
       blinds |-> blinds.val, random_tape |-> blinds.tr]

\* PolyCommitment::append_to_transcript(label, transcript)
RECURSIVE append_points_loop(_, _, _)
append_points_loop(tr, label, pts) ==
  IF Len(pts) = 0 THEN tr
  ELSE append_points_loop(append_point(tr, label, Head(pts)), label, Tail(pts))

PolyCommitment_append_to_transcript(comm, label, tr) ==
  append_message(
    append_points_loop(
      append_message(tr, label, Bytes("poly_commitment_begin")), label, comm.C),
    label, Bytes("poly_commitment_end"))

\* The combination of the rows of Z with the weights L.
rows_combination(Z, L, row_len) ==
  [j \in 1 .. row_len |->
     SumSeq([i \in 1 .. Len(L) |-> fmul(L[i], Z[(i - 1) * row_len + j])])]

polyeval_prove_result(dp) ==
  IF dp.panic
  THEN [panic |-> TRUE]
  ELSE [proof |-> dp.proof, C_Zr |-> dp.Cy, transcript |-> dp.transcript,
        random_tape |-> dp.random_tape, panic |-> FALSE]

\* PolyEvalProof::prove(poly, blinds, r, Zr, blind_Zr, gens, transcript, tape)
PolyEvalProof_prove(Z, blinds, r, Zr, blind_Zr, gens, transcript, random_tape) ==
  LET row_len  == gens.gens.n
      left     == Len(r) - log_2(row_len)
      L        == EqPolynomial_evals(SubSeq(r, 1, left))
      R        == EqPolynomial_evals(SubSeq(r, left + 1, Len(r)))
      LZ       == rows_combination(Z, L, row_len)
      LZ_blind == compute_dotproduct(L, blinds)
  IN  polyeval_prove_result(DotProductProofLog_prove(
               gens.gens,
               append_protocol_name(transcript, "polynomial evaluation proof"),
               random_tape, LZ, LZ_blind, R, Zr, blind_Zr))

\* PolyEvalProof::verify(gens, transcript, r, C_Zr, comm)
PolyEvalProof_verify(proof, gens, transcript, r, C_Zr, comm) ==
  LET row_len == gens.gens.n
      left    == Len(r) - log_2(row_len)
      L       == EqPolynomial_evals(SubSeq(r, 1, left))
      R       == EqPolynomial_evals(SubSeq(r, left + 1, Len(r)))
      C_LZ    == multi_scalar_mul(comm.C, L)
  IN  IF left < 0 \/ Len(comm.C) # Len(L)
      THEN [result |-> "Err", transcript |-> transcript]
      ELSE DotProductProofLog_verify(
             proof, row_len, gens.gens,
             append_protocol_name(transcript, "polynomial evaluation proof"),
             R, C_LZ, C_Zr)

(***************************************************************************)
(* The R1CS argument (r1csproof.rs).                                       *)
(***************************************************************************)
R1CSSumcheckGens_new_fresh(label, gens_1_ref) ==
  [gens_1 |-> MultiCommitGens_new(1, label),
   gens_3 |-> MultiCommitGens_new(3, label),
   gens_4 |-> MultiCommitGens_new(4, label)]

\* R1CSSumcheckGens::new(label, gens_1_ref)
R1CSSumcheckGens_new(label, gens_1_ref) ==
  [gens_1 |-> gens_1_ref,
   gens_3 |-> MultiCommitGens_new(3, label),
   gens_4 |-> MultiCommitGens_new(4, label)]

\* R1CSGens::new(label, _num_cons, num_vars)
R1CSGens_new(label, num_cons, num_vars) ==
  LET gens_pc == PolyCommitmentGens_new(log_2(num_vars), label)
  IN  [gens_sc |-> R1CSSumcheckGens_new(label, gens_pc.gens.gens_1),
       gens_pc |-> gens_pc]

\* R1CSProof::prove_phase_one: the claim is zero and so is its blind.
prove_phase_one(num_rounds, evals_tau, evals_Az, evals_Bz, evals_Cz, gens, transcript, random_tape) ==
  ZKSumcheckInstanceProof_prove(0, 0, num_rounds,
                                << evals_tau, evals_Az, evals_Bz, evals_Cz >>, 3,
                                gens.gens_1, gens.gens_4, transcript, random_tape)

\* R1CSProof::prove_phase_two
prove_phase_two(num_rounds, claim, blind_claim, evals_z, evals_ABC, gens, transcript, random_tape) ==
  ZKSumcheckInstanceProof_prove(claim, blind_claim, num_rounds,
                                << evals_z, evals_ABC >>, 2,
                                gens.gens_1, gens.gens_3, transcript, random_tape)

\* R1CSProof::prove, step by step.  The record s carries the arguments
\* (inst, vars_, input, gens), the vector z, the transcript tr, the random
\* tape and every value computed so far from one step to the next; a step
\* on a panicked s leaves it as it is.
prove_start(inst, vars_, input, gens, transcript, random_tape) ==
  [inst |-> inst, vars_ |-> vars_, input |-> input, gens |-> gens,
   z |-> build_z(vars_, input),
   tr |-> append_scalars(append_protocol_name(transcript, "R1CS proof"),
                         "input", input),
   tape |-> random_tape, panic |-> FALSE]

\* commit to the assignment
prove_commit_vars(s) ==
  LET pc == DensePolynomial_commit(s.vars_, s.gens.gens_pc, s.tape)
  IN  [comm_vars |-> pc.comm, blinds_vars |-> pc.blinds,
       tr |-> PolyCommitment_append_to_transcript(pc.comm, "poly_commitment", s.tr),
       tape |-> pc.random_tape] @@ s

\* the challenge tau and the first sum-check
prove_draw_tau(s) ==
  LET tau == challenge_vector(s.tr, "challenge_tau", log_2(s.inst.num_cons))
  IN  [tau |-> tau.val, tr |-> tau.tr] @@ s

prove_phase_one_done(s, sc) ==
  IF sc.panic THEN [panic |-> TRUE] @@ s
  ELSE [sc_proof_phase1 |-> sc.proof, rx |-> sc.r,
        tau_claim |-> sc.claims[1], Az_claim |-> sc.claims[2],
        Bz_claim |-> sc.claims[3], Cz_claim |-> sc.claims[4],
        blind_claim_postsc1 |-> sc.blind_claim_postsc,
        tr |-> sc.transcript, tape |-> sc.random_tape] @@ s

prove_sc_phase_one(s) ==
  LET mv == multiply_vec(s.inst, s.inst.num_cons, Len(s.z), s.z)
  IN  prove_phase_one_done(s, prove_phase_one(log_2(s.inst.num_cons),
                                              EqPolynomial_evals(s.tau),
                                              mv.Az, mv.Bz, mv.Cz,
                                              s.gens.gens_sc, s.tr, s.tape))

\* the blinds of the three claims and of their product
prove_draw_blinds(s) ==
  IF s.panic THEN s
  ELSE LET b1 == random_scalar(s.tape, "Az_blind")
           b2 == random_scalar(b1.tr, "Bz_blind")
           b3 == random_scalar(b2.tr, "Cz_blind")
           b4 == random_scalar(b3.tr, "prod_Az_Bz_blind")
       IN  [Az_blind |-> b1.val, Bz_blind |-> b2.val, Cz_blind |-> b3.val,
            prod_Az_Bz_blind |-> b4.val, tape |-> b4.tr] @@ s

\* the proofs about the claims
prove_knowledge(s) ==
  IF s.panic THEN s
  ELSE LET kp == KnowledgeProof_prove(s.gens.gens_sc.gens_1, s.tr, s.tape,
                                      s.Cz_claim, s.Cz_blind)
       IN  [pok_Cz_claim |-> kp.proof, comm_Cz_claim |-> kp.C,
            tr |-> kp.transcript, tape |-> kp.random_tape] @@ s

prove_multiplied(s, pp) ==
  [proof_prod |-> pp.proof, comm_Az_claim |-> pp.X, comm_Bz_claim |-> pp.Y,
   comm_prod_Az_Bz_claims |-> pp.Z,
   tr |-> append_point(
            append_point(
              append_point(
                append_point(pp.transcript, "comm_Az_claim", pp.X),
                "comm_Bz_claim", pp.Y),
              "comm_Cz_claim", s.comm_Cz_claim),
            "comm_prod_Az_Bz_claims", pp.Z),
   tape |-> pp.random_tape] @@ s

prove_product(s) ==
  IF s.panic THEN s
  ELSE prove_multiplied(s, ProductProof_prove(s.gens.gens_sc.gens_1, s.tr, s.tape,
                                              s.Az_claim, s.Az_blind,
                                              s.Bz_claim, s.Bz_blind,
                                              fmul(s.Az_claim, s.Bz_claim),
                                              s.prod_Az_Bz_blind))

\* the final step of sum-check #1
prove_closed_one(s, eq) ==
  [proof_eq_sc_phase1 |-> eq.proof, tr |-> eq.transcript,
   tape |-> eq.random_tape] @@ s

prove_close_one(s) ==
  IF s.panic THEN s
  ELSE prove_closed_one(
         s,
         EqualityProof_prove(
           s.gens.gens_sc.gens_1, s.tr, s.tape,
           fmul(fsub(fmul(s.Az_claim, s.Bz_claim), s.Cz_claim), s.tau_claim),
           fmul(s.tau_claim, fsub(s.prod_Az_Bz_blind, s.Cz_blind)),
           fmul(fsub(fmul(s.Az_claim, s.Bz_claim), s.Cz_claim), s.tau_claim),
           s.blind_claim_postsc1))

\* the three challenges and the second sum-check
prove_combine(s) ==
  IF s.panic THEN s
  ELSE LET r_A == challenge_scalar(s.tr, "challenege_Az")
           r_B == challenge_scalar(r_A.tr, "challenege_Bz")
           r_C == challenge_scalar(r_B.tr, "challenege_Cz")
       IN  [r_A |-> r_A.val, r_B |-> r_B.val, r_C |-> r_C.val, tr |-> r_C.tr] @@ s

prove_phase_two_done(s, sc) ==
  IF sc.panic THEN [panic |-> TRUE] @@ s
  ELSE [sc_proof_phase2 |-> sc.proof, ry |-> sc.r, claims_phase2 |-> sc.claims,
        blind_claim_postsc2 |-> sc.blind_claim_postsc,
        tr |-> sc.transcript, tape |-> sc.random_tape] @@ s

prove_phase_two_with(s, et) ==
  prove_phase_two_done(
    s,
    prove_phase_two(
      log_2(Len(s.z)),
      fadd(fadd(fmul(s.r_A, s.Az_claim), fmul(s.r_B, s.Bz_claim)),
           fmul(s.r_C, s.Cz_claim)),
      fadd(fadd(fmul(s.r_A, s.Az_blind), fmul(s.r_B, s.Bz_blind)),
           fmul(s.r_C, s.Cz_blind)),
      s.z,
      [i \in 1 .. Len(et.A) |->
         fadd(fadd(fmul(s.r_A, et.A[i]), fmul(s.r_B, et.B[i])),
              fmul(s.r_C, et.C[i]))],
      s.gens.gens_sc, s.tr, s.tape))

prove_sc_phase_two(s) ==
  IF s.panic THEN s
  ELSE prove_phase_two_with(
         s, compute_eval_table_sparse(s.inst, s.inst.num_cons, Len(s.z),
                                      EqPolynomial_evals(s.rx)))

\* the opening of the assignment at ry[1..]
prove_opened(s, blind_eval, pe) ==
  IF pe.panic THEN [panic |-> TRUE] @@ s
  ELSE [blind_eval |-> blind_eval.val, comm_vars_at_ry |-> pe.C_Zr,
        proof_eval_vars_at_ry |-> pe.proof,
        tr |-> pe.transcript, tape |-> pe.random_tape] @@ s

prove_open_vars(s) ==
  IF s.panic THEN s
  ELSE LET blind_eval == random_scalar(s.tape, "blind_eval")
       IN  prove_opened(s, blind_eval,
                        PolyEvalProof_prove(s.vars_, s.blinds_vars, Tail(s.ry),
                                            DensePolynomial_evaluate(s.vars_, Tail(s.ry)),
                                            blind_eval.val, s.gens.gens_pc, s.tr,
                                            blind_eval.tr))

\* the final step of sum-check #2
prove_closed_two(s, eq) ==
  [proof_eq_sc_phase2 |-> eq.proof, tr |-> eq.transcript,
   tape |-> eq.random_tape] @@ s

prove_close_two_unscaled(s, claim_post_phase2, blind_eval_Z_at_ry) ==
  prove_closed_two(s, EqualityProof_prove(s.gens.gens_pc.gens.gens_1, s.tr, s.tape,
                                          claim_post_phase2,
                                          fmul(s.claims_phase2[2], s.blind_eval),
                                          claim_post_phase2, s.blind_claim_postsc2))

prove_close_two_with(s, claim_post_phase2, blind_eval_Z_at_ry) ==
  prove_closed_two(s, EqualityProof_prove(s.gens.gens_pc.gens.gens_1, s.tr, s.tape,
                                          claim_post_phase2,
                                          fmul(s.claims_phase2[2], blind_eval_Z_at_ry),
                                          claim_post_phase2, s.blind_claim_postsc2))

prove_close_two(s) ==
  IF s.panic THEN s
  ELSE prove_close_two_with(s, fmul(s.claims_phase2[1], s.claims_phase2[2]),
                            fmul(fsub(1, s.ry[1]), s.blind_eval))

prove_result(s) ==
  IF s.panic
  THEN [panic |-> TRUE]
  ELSE [proof |->
          [comm_vars |-> s.comm_vars,
           sc_proof_phase1 |-> s.sc_proof_phase1,
           claims_phase2 |-> << s.comm_Az_claim, s.comm_Bz_claim, s.comm_Cz_claim,
                                s.comm_prod_Az_Bz_claims >>,
           pok_claims_phase2 |-> << s.pok_Cz_claim, s.proof_prod >>,
           proof_eq_sc_phase1 |-> s.proof_eq_sc_phase1,
           sc_proof_phase2 |-> s.sc_proof_phase2,
           comm_vars_at_ry |-> s.comm_vars_at_ry,
           proof_eval_vars_at_ry |-> s.proof_eval_vars_at_ry,
           proof_eq_sc_phase2 |-> s.proof_eq_sc_phase2],
        rx |-> s.rx, ry |-> s.ry, transcript |-> s.tr, random_tape |-> s.tape,
        panic |-> FALSE]

\* R1CSProof::prove
R1CSProof_prove(inst, vars_, input, gens, transcript, random_tape) ==
  IF ~(Len(input) < Len(vars_))
  THEN \* assert!(input.len() < vars.len())
       [panic |-> TRUE]
  ELSE prove_result(
         prove_close_two(prove_open_vars(
           prove_sc_phase_two(prove_combine(prove_close_one(
             prove_product(prove_knowledge(prove_draw_blinds(
               prove_sc_phase_one(prove_draw_tau(prove_commit_vars(
                 prove_start(inst, vars_, input, gens, transcript,
                             random_tape)))))))))))))

\* R1CSProof::verify, step by step.  The record s carries the arguments, the
\* transcript tr, the outcome so far and the values computed so far; after a
\* failed sub-proof (the ? of the code) the remaining steps leave s as it is.
verify_start(proof, num_vars, num_cons, input, evals, transcript, gens) ==
  [proof |-> proof, num_vars |-> num_vars, num_cons |-> num_cons,
   input |-> input, evals |-> evals, gens |-> gens,
   tr |-> PolyCommitment_append_to_transcript(
            proof.comm_vars, "poly_commitment",
            append_scalars(append_protocol_name(transcript, "R1CS proof"),
                           "input", input)),
   result |-> "Ok"]

verify_checked(s, v) == [result |-> v.result, tr |-> v.transcript] @@ s

verify_draw_tau(s) ==
  LET tau == challenge_vector(s.tr, "challenge_tau", log_2(s.num_cons))
  IN  [tau |-> tau.val, tr |-> tau.tr] @@ s

\* the first sum-check instance
verify_phase_one_done(s, sc) ==
  [comm_claim_post_phase1 |-> sc.comm_claim_post, rx |-> sc.r,
   result |-> sc.result, tr |-> sc.transcript] @@ s

verify_sc_phase_one(s) ==
  verify_phase_one_done(
    s, ZKSumcheckInstanceProof_verify(
         s.proof.sc_proof_phase1, commit_scalar(0, 0, s.gens.gens_sc.gens_1),
         log_2(s.num_cons), 3, s.gens.gens_sc.gens_1, s.gens.gens_sc.gens_4, s.tr))

\* the intermediate test with the claimed Az, Bz and Cz
verify_knowledge(s) ==
  IF s.result # "Ok" THEN s
  ELSE verify_checked(s, KnowledgeProof_verify(s.proof.pok_claims_phase2[1],
                                               s.gens.gens_sc.gens_1, s.tr,
                                               s.proof.claims_phase2[3]))

verify_multiplied_silent(s, v) == verify_checked(s, v)

verify_multiplied(s, v) ==
  IF v.result # "Ok" THEN verify_checked(s, v)
  ELSE [tr |-> append_point(
                 append_point(
                   append_point(
                     append_point(v.transcript, "comm_Az_claim", s.proof.claims_phase2[1]),
                     "comm_Bz_claim", s.proof.claims_phase2[2]),
                   "comm_Cz_claim", s.proof.claims_phase2[3]),
                 "comm_prod_Az_Bz_claims", s.proof.claims_phase2[4])] @@ s

verify_product(s) ==
  IF s.result # "Ok" THEN s
  ELSE verify_multiplied(s, ProductProof_verify(s.proof.pok_claims_phase2[2],
                                                s.gens.gens_sc.gens_1, s.tr,
                                                s.proof.claims_phase2[1],
                                                s.proof.claims_phase2[2],
                                                s.proof.claims_phase2[4]))

\* the final check of the first sum-check, with eq(tau, rx)
verify_close_one(s) ==
  IF s.result # "Ok" THEN s
  ELSE verify_checked(
         s, EqualityProof_verify(
              s.proof.proof_eq_sc_phase1, s.gens.gens_sc.gens_1, s.tr,
              gmul(gsub(s.proof.claims_phase2[4], s.proof.claims_phase2[3]),
                   fmul_seq([i \in 1 .. Len(s.rx) |->
                               fadd(fmul(s.rx[i], s.tau[i]),
                                    fmul(fsub(1, s.rx[i]), fsub(1, s.tau[i])))])),
              s.comm_claim_post_phase1))

\* the three public challenges and the joint claim
verify_combine(s) ==
  IF s.result # "Ok" THEN s
  ELSE LET r_A == challenge_scalar(s.tr, "challenege_Az")
           r_B == challenge_scalar(r_A.tr, "challenege_Bz")
           r_C == challenge_scalar(r_B.tr, "challenege_Cz")
       IN  [r_A |-> r_A.val, r_B |-> r_B.val, r_C |-> r_C.val, tr |-> r_C.tr] @@ s

verify_phase_two_done(s, sc) ==
  [comm_claim_post_phase2 |-> sc.comm_claim_post, ry |-> sc.r,
   result |-> sc.result, tr |-> sc.transcript] @@ s

verify_sc_phase_two(s) ==
  IF s.result # "Ok" THEN s
  ELSE verify_phase_two_done(
         s,
         ZKSumcheckInstanceProof_verify(
           s.proof.sc_proof_phase2,
           multi_scalar_mul(<< s.proof.claims_phase2[1], s.proof.claims_phase2[2],
                               s.proof.claims_phase2[3] >>,
                            << s.r_A, s.r_B, s.r_C >>),
           log_2(2 * s.num_vars), 2, s.gens.gens_sc.gens_1, s.gens.gens_sc.gens_3,
           s.tr))

\* the proof of Z(ry) against the initial commitment
verify_opening(s) ==
  IF s.result # "Ok" THEN s
  ELSE verify_checked(s, PolyEvalProof_verify(s.proof.proof_eval_vars_at_ry,
                                              s.gens.gens_pc, s.tr, Tail(s.ry),
                                              s.proof.comm_vars_at_ry,
                                              s.proof.comm_vars))

\* the final check of the second sum-check
verify_close_two(s) ==
  IF s.result # "Ok" THEN s
  ELSE verify_checked(
         s, EqualityProof_verify(
              s.proof.proof_eq_sc_phase2, s.gens.gens_sc.gens_1, s.tr,
              gmul(multi_scalar_mul(
                     << s.proof.comm_vars_at_ry,
                        commit_scalar(
                          SparsePolynomial_evaluate(
                            log_2(s.num_vars),
                            << [idx |-> 0, val |-> 1] >> \o
                              [i \in 1 .. Len(s.input) |->
                                 [idx |-> i, val |-> s.input[i]]],
                            Tail(s.ry)),
                          0, s.gens.gens_pc.gens.gens_1) >>,
                     << fsub(1, s.ry[1]), s.ry[1] >>),
                   fadd(fadd(fmul(s.r_A, s.evals[1]), fmul(s.r_B, s.evals[2])),
                        fmul(s.r_C, s.evals[3]))),
              s.comm_claim_post_phase2))

verify_result(s) ==
  IF s.result # "Ok"
  THEN [result |-> s.result, transcript |-> s.tr]
  ELSE [result |-> "Ok", rx |-> s.rx, ry |-> s.ry, transcript |-> s.tr]

\* R1CSProof::verify
R1CSProof_verify(proof, num_vars, num_cons, input, evals, transcript, gens) ==
  IF ~commit_scalar_ok(gens.gens_sc.gens_1)
  THEN \* the assertion of commit, on the claim of phase one
       [result |-> "Panic", transcript |-> transcript]
  ELSE verify_result(
         verify_close_two(verify_opening(
           verify_sc_phase_two(verify_combine(verify_close_one(
             verify_product(verify_knowledge(
               verify_sc_phase_one(verify_draw_tau(
                 verify_start(proof, num_vars, num_cons, input, evals,
                              transcript, gens)))))))))))

(***************************************************************************)
(* The state machine.  A behaviour is one run of a test of the repository:  *)
(* a prove on a fresh transcript and a fresh random tape, then a verify on *)
(* a fresh transcript.  Between the two the arguments handed to the        *)
(* verifier may be altered.                                                *)
(*   inp  the prover's inputs                                              *)
(*   out  what prove returned (proof, commitments, transcript, tape)       *)
(*   arg  the arguments of the verify call                                 *)
(*   res  what verify returned                                             *)
(***************************************************************************)
None == [none |-> TRUE]

Init ==
  /\ rngSeed \in F
  /\ phase = "init"
  /\ kind = "none"
  /\ inp = None
  /\ out = None
  /\ arg = None
  /\ res = None
  /\ gensLog = << >>

\* Init with the tape's seed fixed, for the runs in which no tape is drawn
\* from or in which the seed does not enter what is checked.
InitFixedSeed == Init /\ rngSeed = 0

(***************************************************************************)
(* The arguments an honest caller hands to verify: the proof and the       *)
(* commitments prove returned, the generators prove used, and a transcript *)
(* with the prover's initial label.                                        *)
(***************************************************************************)
HonestKnowledgeArg ==
  [proof |-> out.proof, gens_n |-> inp.gens_n, C |-> out.C, label |-> "example"]

HonestEqualityArg ==
  [proof |-> out.proof, gens_n |-> inp.gens_n, C1 |-> out.C1, C2 |-> out.C2,
   label |-> "example"]

HonestProductArg ==
  [proof |-> out.proof, gens_n |-> inp.gens_n, X |-> out.X, Y |-> out.Y,
   Z |-> out.Z, label |-> "example"]

HonestDotProductLogArg ==
  [proof |-> out.proof, n |-> inp.n, gens |-> inp.gens, a |-> inp.a_vec,
   Cx |-> out.Cx, Cy |-> out.Cy, label |-> "example"]

HonestDotProductArg ==
  [proof |-> out.proof, gens_1 |-> inp.gens_1, gens_n |-> inp.gens_n,
   a |-> inp.a_vec, Cx |-> out.Cx, Cy |-> out.Cy, label |-> "example"]

\* The verify call was handed what prove returned, unaltered.
HonestSigmaArg ==
  \/ kind = "knowledge" /\ arg = HonestKnowledgeArg
  \/ kind = "equality" /\ arg = HonestEqualityArg
  \/ kind = "product" /\ arg = HonestProductArg
  \/ kind = "dotproduct" /\ arg = HonestDotProductArg

\* check_knowledgeproof
KnowledgeProve ==
  /\ phase = "init"
  /\ \E x \in Vals, r \in Vals :
    LET gens_1 == MultiCommitGens_new(1, "test-knowledgeproof")
        o == KnowledgeProof_prove(gens_1, Transcript_new("example"),
                                  RandomTape_new("proof"), x, r)
    IN  /\ kind' = "knowledge"
        /\ phase' = "proved"
        /\ inp' = [x |-> x, r |-> r, gens_n |-> gens_1]
        /\ out' = o
        /\ arg' = [proof |-> out'.proof, gens_n |-> gens_1, C |-> out'.C,
                   label |-> "example"]
        /\ res' = None
        /\ UNCHANGED <<rngSeed, gensLog>>

KnowledgeVerify ==
  /\ phase = "proved"
  /\ kind = "knowledge"
  /\ res' = KnowledgeProof_verify(arg.proof, arg.gens_n,
                                  Transcript_new(arg.label), arg.C)
  /\ phase' = "verified"
  /\ UNCHANGED <<rngSeed, kind, inp, out, arg, gensLog>>

\* check_equalityproof
EqualityProve ==
  /\ phase = "init"
  /\ \E v1 \in Vals, v2 \in Vals, s1 \in Vals, s2 \in Vals :
    LET gens_1 == MultiCommitGens_new(1, "test-equalityproof")
        o == EqualityProof_prove(gens_1, Transcript_new("example"),
                                 RandomTape_new("proof"), v1, s1, v2, s2)
    IN  /\ kind' = "equality"
        /\ phase' = "proved"
        /\ inp' = [v1 |-> v1, s1 |-> s1, v2 |-> v2, s2 |-> s2,
                   gens_n |-> gens_1]
        /\ out' = o
        /\ arg' = [proof |-> out'.proof, gens_n |-> gens_1, C1 |-> out'.C1,
                   C2 |-> out'.C2, label |-> "example"]
        /\ res' = None
        /\ UNCHANGED <<rngSeed, gensLog>>

EqualityVerify ==
  /\ phase = "proved"
  /\ kind = "equality"
  /\ res' = EqualityProof_verify(arg.proof, arg.gens_n,
                                 Transcript_new(arg.label), arg.C1, arg.C2)
  /\ phase' = "verified"
  /\ UNCHANGED <<rngSeed, kind, inp, out, arg, gensLog>>

\* check_productproof; z is the product or the product plus one.
ProductProve ==
  /\ phase = "init"
  /\ \E x \in Vals, rX \in Vals, y \in Vals, rY \in Vals, rZ \in Vals,
     bump \in {0, 1} :
    LET gens_1 == MultiCommitGens_new(1, "test-productproof")
        z == fadd(fmul(x, y), bump)
        o == ProductProof_prove(gens_1, Transcript_new("example"),
                                RandomTape_new("proof"), x, rX, y, rY, z, rZ)
    IN  /\ kind' = "product"
        /\ phase' = "proved"
        /\ inp' = [x |-> x, rX |-> rX, y |-> y, rY |-> rY, z |-> z,
                   rZ |-> rZ, gens_n |-> gens_1]
        /\ out' = o
        /\ arg' = [proof |-> out'.proof, gens_n |-> gens_1, X |-> out'.X,
                   Y |-> out'.Y, Z |-> out'.Z, label |-> "example"]
        /\ res' = None
        /\ UNCHANGED <<rngSeed, gensLog>>

ProductVerify ==
  /\ phase = "proved"
  /\ kind = "product"
  /\ res' = ProductProof_verify(arg.proof, arg.gens_n,
                                Transcript_new(arg.label), arg.X, arg.Y, arg.Z)
  /\ phase' = "verified"
  /\ UNCHANGED <<rngSeed, kind, inp, out, arg, gensLog>>

\* check_dotproductproof
DotProductProve ==
  /\ phase = "init"
  /\ \E n \in 1 .. MaxLen, blind_x \in Vals, blind_y \in Vals :
    \E x_vec \in SeqsOfLen(Entries, n), a_vec \in SeqsOfLen(Entries, n) :
      LET gens_1 == MultiCommitGens_new(1, "test-two")
          gens_n == MultiCommitGens_new(n, "test-1024")
          y == compute_dotproduct(x_vec, a_vec)
          o == DotProductProof_prove(gens_1, gens_n, Transcript_new("example"),
                                     RandomTape_new("proof"),
                                     x_vec, blind_x, a_vec, y, blind_y)
      IN  /\ kind' = "dotproduct"
          /\ phase' = "proved"
          /\ inp' = [x_vec |-> x_vec, blind_x |-> blind_x, a_vec |-> a_vec,
                     y |-> y, blind_y |-> blind_y,
                     gens_1 |-> gens_1, gens_n |-> gens_n]
          /\ out' = o
          /\ arg' = [proof |-> out'.proof, gens_1 |-> gens_1, gens_n |-> gens_n,
                     a |-> a_vec, Cx |-> out'.Cx, Cy |-> out'.Cy,
                     label |-> "example"]
          /\ res' = None
          /\ UNCHANGED <<rngSeed, gensLog>>

\* The caller hands verify a public vector that is one element short.
DotProductShortenA ==
  /\ phase = "proved"
  /\ kind = "dotproduct"
  /\ arg = [proof |-> out.proof, gens_1 |-> inp.gens_1, gens_n |-> inp.gens_n,
            a |-> inp.a_vec, Cx |-> out.Cx, Cy |-> out.Cy, label |-> "example"]
  /\ arg' = [arg EXCEPT !.a = SubSeq(arg.a, 1, Len(arg.a) - 1)]
  /\ UNCHANGED <<rngSeed, phase, kind, inp, out, res, gensLog>>

\* The caller hands verify a two-generator set where gens_1 is expected.
DotProductWideGens1 ==
  /\ phase = "proved"
  /\ kind = "dotproduct"
  /\ arg = [proof |-> out.proof, gens_1 |-> inp.gens_1, gens_n |-> inp.gens_n,
            a |-> inp.a_vec, Cx |-> out.Cx, Cy |-> out.Cy, label |-> "example"]
  /\ arg' = [arg EXCEPT !.gens_1 = MultiCommitGens_new(2, "test-two")]
  /\ UNCHANGED <<rngSeed, phase, kind, inp, out, res, gensLog>>

DotProductVerify ==
  /\ phase = "proved"
  /\ kind = "dotproduct"
  /\ res' = DotProductProof_verify(arg.proof, arg.gens_1, arg.gens_n,
                                   Transcript_new(arg.label),
                                   arg.a, arg.Cx, arg.Cy)
  /\ phase' = "verified"
  /\ UNCHANGED <<rngSeed, kind, inp, out, arg, gensLog>>

\* Before verify is called, one scalar of the proof is replaced by another
\* field element: the scalar plus d, for d in 1..MaxDelta.
AlterScalar ==
  /\ phase = "proved"
  /\ HonestSigmaArg
  /\ \E d \in 1 .. MaxDelta :
       \/ /\ kind = "knowledge"
          /\ \E f \in {"z1", "z2"} : arg' = [arg EXCEPT !.proof[f] = fadd(@, d)]
       \/ /\ kind = "equality"
          /\ arg' = [arg EXCEPT !.proof.z = fadd(@, d)]
       \/ /\ kind = "product"
          /\ \E i \in 1 .. 5 : arg' = [arg EXCEPT !.proof.z[i] = fadd(@, d)]
       \/ /\ kind = "dotproduct"
          /\ \/ \E i \in 1 .. Len(arg.proof.z) :
                  arg' = [arg EXCEPT !.proof.z[i] = fadd(@, d)]
             \/ \E f \in {"z_delta", "z_beta"} :
                  arg' = [arg EXCEPT !.proof[f] = fadd(@, d)]
  /\ UNCHANGED <<rngSeed, phase, kind, inp, out, res, gensLog>>

\* The verifier of a build in which protocol_name() returns another byte
\* string than the one the prover absorbed.
VerifyRetagged ==
  /\ phase = "proved"
  /\ HonestSigmaArg
  /\ \E name \in {"knowledge proof", "equality proof", "product proof",
                   "dot product proof"} :
       /\ Bytes(name) # out.transcript.log[2].data
       /\ res' = IF kind = "knowledge"
                 THEN KnowledgeProof_verify_named(name, arg.proof, arg.gens_n,
                                                  Transcript_new(arg.label), arg.C)
                 ELSE IF kind = "equality"
                 THEN EqualityProof_verify_named(name, arg.proof, arg.gens_n,
                                                 Transcript_new(arg.label),
                                                 arg.C1, arg.C2)
                 ELSE IF kind = "product"
                 THEN ProductProof_verify_named(name, arg.proof, arg.gens_n,
                                                Transcript_new(arg.label),
                                                arg.X, arg.Y, arg.Z)
                 ELSE DotProductProof_verify_named(name, arg.proof, arg.gens_1,
                                                   arg.gens_n,
                                                   Transcript_new(arg.label),
                                                   arg.a, arg.Cx, arg.Cy)
  /\ phase' = "verified"
  /\ UNCHANGED <<rngSeed, kind, inp, out, arg, gensLog>>

Next ==
  \/ KnowledgeProve
  \/ KnowledgeVerify
  \/ EqualityProve
  \/ EqualityVerify
  \/ ProductProve
  \/ ProductVerify
  \/ DotProductProve
  \/ DotProductShortenA
  \/ DotProductWideGens1
  \/ DotProductVerify

Spec == Init /\ [][Next]_vars

\* The same proofs, with the verifier also run on a proof one scalar of which
\* was altered and under a replaced protocol-name tag.  The tape's seed does
\* not enter verify; it is fixed.
SpecSound == InitFixedSeed /\ [][Next \/ VerifyRetagged \/ AlterScalar]_vars

(***************************************************************************)
(* Generator construction.  gensLog records every call of                  *)
(* MultiCommitGens::new with what it returned; res records the last         *)
(* split_at or DotProductProofGens::new call.                              *)
(***************************************************************************)
GensLabels == {"test-two", "test-1024", "test-m"}

NewGens ==
  /\ Len(gensLog) < MaxCalls
  /\ \E n \in 0 .. MaxGens, label \in GensLabels :
       gensLog' = Append(gensLog, [n |-> n, label |-> label,
                                   gens |-> MultiCommitGens_new(n, label)])
  /\ UNCHANGED <<rngSeed, phase, kind, inp, out, arg, res>>

SplitAt ==
  /\ \E idx \in 1 .. Len(gensLog) :
       \E mid \in 0 .. gensLog[idx].n :
         LET g == gensLog[idx].gens
             pair == split_at(g, mid)
         IN  /\ kind' = "split"
             /\ res' = [idx |-> idx, g |-> g, mid |-> mid,
                        g1 |-> pair[1], g2 |-> pair[2]]
  /\ UNCHANGED <<rngSeed, phase, inp, out, arg, gensLog>>

NewDotProductProofGens ==
  /\ \E n \in 0 .. MaxGens, label \in GensLabels :
       /\ kind' = "dpgens"
       /\ res' = [n |-> n, label |-> label,
                  gens |-> DotProductProofGens_new(n, label)]
  /\ UNCHANGED <<rngSeed, phase, inp, out, arg, gensLog>>

SpecGens == InitFixedSeed /\ [][NewGens \/ SplitAt \/ NewDotProductProofGens]_vars

\* R1CSGens::new(label, num_cons, num_vars) for a power of two num_vars and
\* as many constraints; num_cons does not enter the generators.  The call
\* makes three calls of MultiCommitGens::new: one in DotProductProofGens::new
\* for the row length of the polynomial commitment plus one, and those for
\* gens_3 and gens_4 in R1CSSumcheckGens::new.
NewR1CSGens ==
  /\ Len(gensLog) < 3 * MaxCalls
  /\ \E lv \in 0 .. MaxGens, label \in GensLabels :
       LET row == 2 ^ (lv - (lv \div 2))
       IN  /\ kind' = "r1csgens"
           /\ res' = [num_cons |-> 2 ^ lv, num_vars |-> 2 ^ lv, label |-> label,
                      gens |-> R1CSGens_new(label, 2 ^ lv, 2 ^ lv)]
           /\ gensLog' = gensLog \o
                << [n |-> row + 1, label |-> label, gens |-> MultiCommitGens_new(row + 1, label)],
                   [n |-> 3, label |-> label, gens |-> MultiCommitGens_new(3, label)],
                   [n |-> 4, label |-> label, gens |-> MultiCommitGens_new(4, label)] >>
  /\ UNCHANGED <<rngSeed, phase, inp, out, arg>>

SpecR1CSGens == InitFixedSeed /\ [][NewR1CSGens]_vars

(***************************************************************************)
(* Tape construction.  Two tapes are created by two calls of                *)
(* RandomTape::new with the same name while the entropy source of the       *)
(* platform would yield e1 on a first draw and e2 on a second; a blind is   *)
(* then squeezed from each tape under the same label.                       *)
(***************************************************************************)
NewTapes ==
  /\ phase = "init"
  /\ \E name \in {"proof", "other"}, e1 \in F, e2 \in F :
       /\ inp' = [name |-> name, e1 |-> e1, e2 |-> e2]
       /\ out' = [first |-> RandomTape_new(name),
                  second |-> RandomTape_new(name),
                  blind1 |-> random_scalar(RandomTape_new(name), "t1").val,
                  blind2 |-> random_scalar(RandomTape_new(name), "t1").val]
  /\ kind' = "tapes"
  /\ phase' = "done"
  /\ UNCHANGED <<rngSeed, arg, res, gensLog>>

SpecTape == Init /\ [][NewTapes]_vars

(***************************************************************************)
(* Commitments under one generator set: v1 and v2 are committed to with    *)
(* blinds r1 and r2, and so are their sum, with blind r1 + r2, and c * v1,  *)
(* with blind c * r1.  The form is that of the F impl (a scalar, n = 1) or  *)
(* that of the Vec<F> and [F] impls.                                        *)
(***************************************************************************)
Commit ==
  /\ phase = "init"
  /\ \E form \in {"scalar", "vec"}, n \in 1 .. MaxLen :
     \E v1 \in SeqsOfLen(Vals, n), v2 \in SeqsOfLen(Vals, n), r1 \in Vals, r2 \in Vals, c \in F :
       LET gens_n == MultiCommitGens_new(n, "test-m")
           commit(v, blind) == IF form = "scalar" THEN commit_scalar(v[1], blind, gens_n)
                               ELSE commit_vec(v, blind, gens_n)
       IN  /\ form = "scalar" => n = 1
           /\ inp' = [form |-> form, gens_n |-> gens_n, v1 |-> v1, r1 |-> r1,
                      v2 |-> v2, r2 |-> r2, c |-> c]
           /\ out' = [C1 |-> commit(v1, r1),
                      C2 |-> commit(v2, r2),
                      Csum |-> commit([i \in 1 .. n |-> fadd(v1[i], v2[i])], fadd(r1, r2)),
                      Cscaled |-> commit([i \in 1 .. n |-> fmul(c, v1[i])], fmul(c, r1))]
  /\ kind' = "commit"
  /\ phase' = "done"
  /\ UNCHANGED <<rngSeed, arg, res, gensLog>>

SpecCommit == InitFixedSeed /\ [][Commit]_vars

(***************************************************************************)
(* The log-size dot-product proof: check_dotproductproof_log, and a        *)
(* verifier that is handed a proof with one response scalar altered.       *)
(***************************************************************************)
DotProductLogProve ==
  /\ phase = "init"
  /\ \E lg \in 0 .. MaxLg, blind_x \in Entries, blind_y \in Entries :
       \E x_vec \in SeqsOfLen(Entries, 2 ^ lg), a_vec \in SeqsOfLen(Entries, 2 ^ lg) :
         LET n == 2 ^ lg
             gens == DotProductProofGens_new(n, "test-1024")
             y == compute_dotproduct(x_vec, a_vec)
             o == DotProductProofLog_prove(gens, Transcript_new("example"),
                                           RandomTape_new("proof"),
                                           x_vec, blind_x, a_vec, y, blind_y)
         IN  /\ kind' = "dotproductlog"
             /\ out' = o
             /\ phase' = IF out'.panic THEN "aborted" ELSE "proved"
             /\ inp' = [x_vec |-> x_vec, blind_x |-> blind_x, a_vec |-> a_vec,
                        y |-> y, blind_y |-> blind_y, gens |-> gens, n |-> n]
             /\ arg' = IF out'.panic THEN None
                       ELSE [proof |-> out'.proof, n |-> n, gens |-> gens,
                             a |-> a_vec, Cx |-> out'.Cx, Cy |-> out'.Cy,
                             label |-> "example"]
             /\ res' = None
             /\ UNCHANGED <<rngSeed, gensLog>>

\* An adversary replaces the response z1 of the proof by z1 + 1.
DotProductLogAlterZ1 ==
  /\ phase = "proved"
  /\ kind = "dotproductlog"
  /\ arg.proof = out.proof
  /\ arg' = [arg EXCEPT !.proof.z1 = fadd(arg.proof.z1, 1)]
  /\ UNCHANGED <<rngSeed, phase, kind, inp, out, res, gensLog>>

DotProductLogVerify ==
  /\ phase = "proved"
  /\ kind = "dotproductlog"
  /\ res' = DotProductProofLog_verify(arg.proof, arg.n, arg.gens,
                                      Transcript_new(arg.label),
                                      arg.a, arg.Cx, arg.Cy)
  /\ phase' = "verified"
  /\ UNCHANGED <<rngSeed, kind, inp, out, arg, gensLog>>

\* The tape seeds explored for the log-size proof.
InitLog == Init /\ rngSeed \in {0, 1, 2}

SpecLog == InitLog /\ [][DotProductLogProve \/ DotProductLogAlterZ1 \/ DotProductLogVerify]_vars

(***************************************************************************)
(* The R1CS argument: check_r1cs_proof, on small satisfiable instances     *)
(* whose first two constraints have the forms of produce_tiny_r1cs and     *)
(* whose other constraints are empty.                                      *)
(***************************************************************************)
\* The constraint forms, over z of length 2v: Z1 * Z2 = I0, (Z1 + Z2) * 1 = I0,
\* Z1 * Z1 = Z2, Z2 * 1 = 0 and the empty constraint.
ConstraintForms(v) ==
  LET unit_row(j) == [i \in 1 .. (2 * v) |-> IF i = j THEN 1 ELSE 0]
      zero_row == [i \in 1 .. (2 * v) |-> 0]
      sum_row == [i \in 1 .. (2 * v) |-> IF i = 1 \/ i = 2 THEN 1 ELSE 0]
  IN  << [a |-> unit_row(1), b |-> unit_row(2), c |-> unit_row(v + 2)],
         [a |-> sum_row, b |-> unit_row(v + 1), c |-> unit_row(v + 2)],
         [a |-> unit_row(1), b |-> unit_row(1), c |-> unit_row(2)],
         [a |-> unit_row(2), b |-> unit_row(v + 1), c |-> zero_row],
         [a |-> zero_row, b |-> zero_row, c |-> zero_row] >>

\* R1CSInstance::new: the instance whose constraints 0 and 1 have the forms
\* f0 and f1.
R1CSInstance_new(num_cons, num_vars, num_inputs, f0, f1) ==
  LET forms == ConstraintForms(num_vars)
      form(i) == IF i = 1 THEN forms[f0] ELSE IF i = 2 THEN forms[f1] ELSE forms[5]
  IN  [num_cons |-> num_cons, num_vars |-> num_vars, num_inputs |-> num_inputs,
       A |-> [i \in 1 .. num_cons |-> form(i).a],
       B |-> [i \in 1 .. num_cons |-> form(i).b],
       C |-> [i \in 1 .. num_cons |-> form(i).c]]

\* The assignments to the variables: the first two range over 0..MaxWit, the
\* others are zero.  R1CSProve hands prove one of them, or a vector that is
\* no longer than the input.
Assignments(num_vars) ==
  { [i \in 1 .. num_vars |-> IF i = 1 THEN a ELSE IF i = 2 THEN b ELSE 0] :
      a \in 0 .. MaxWit, b \in 0 .. MaxWit }

R1CSProve ==
  /\ phase = "init"
  /\ \E f0 \in 1 .. 5, f1 \in 1 .. 5, num_inputs \in 0 .. MaxInputs :
       \E vars_ \in Assignments(2 ^ LgVars) \cup SeqsOfLen(0 .. MaxWit, num_inputs), input \in SeqsOfLen(0 .. MaxWit, num_inputs) :
         LET num_cons == 2 ^ LgCons
             num_vars == 2 ^ LgVars
             inst == R1CSInstance_new(num_cons, num_vars, num_inputs, f0, f1)
             gens == R1CSGens_new("test-m", num_cons, num_vars)
         IN  /\ Len(vars_) = num_vars => is_sat(inst, vars_, input)
             /\ kind' = "r1cs"
             /\ out' = R1CSProof_prove(inst, vars_, input, gens,
                                       Transcript_new("example"),
                                       RandomTape_new("proof"))
             /\ phase' = IF out'.panic THEN "aborted" ELSE "proved"
             /\ inp' = [inst |-> inst, vars_ |-> vars_, input |-> input, gens |-> gens]
             /\ arg' = IF out'.panic THEN None
                       ELSE [proof |-> out'.proof, num_vars |-> num_vars,
                             num_cons |-> num_cons, input |-> input,
                             evals |-> R1CSInstance_evaluate(inst, out'.rx, out'.ry),
                             gens |-> gens, label |-> "example"]
             /\ res' = None
             /\ UNCHANGED <<rngSeed, gensLog>>

R1CSVerify ==
  /\ phase = "proved"
  /\ kind = "r1cs"
  /\ res' = R1CSProof_verify(arg.proof, arg.num_vars, arg.num_cons, arg.input,
                             arg.evals, Transcript_new(arg.label), arg.gens)
  /\ phase' = "verified"
  /\ UNCHANGED <<rngSeed, kind, inp, out, arg, gensLog>>

\* The arguments check_r1cs_proof hands to verify: the proof prove returned,
\* the sizes and the input of the instance, evals = inst.evaluate(rx, ry) at
\* the prover's (rx, ry), the prover's generators and initial label.
HonestR1CSArg ==
  [proof |-> out.proof, num_vars |-> inp.inst.num_vars,
   num_cons |-> inp.inst.num_cons, input |-> inp.input,
   evals |-> R1CSInstance_evaluate(inp.inst, out.rx, out.ry),
   gens |-> inp.gens, label |-> "example"]

\* One response scalar of the sub-proof number i of the proof is altered
\* before verify, and with it, when later holds, one response scalar of every
\* sub-proof after it.  The sub-proofs are numbered in the order of verify:
\* the first sum-check, the knowledge proof, the product proof, the first
\* equality proof, the second sum-check, the evaluation proof, the second
\* equality proof.
R1CSAlter ==
  /\ phase = "proved"
  /\ kind = "r1cs"
  /\ arg = HonestR1CSArg
  /\ \E i \in 1 .. 7, later \in BOOLEAN :
       LET alter(j, x) == IF j = i \/ (later /\ j > i) THEN fadd(x, 1) ELSE x
       IN  arg' = [arg EXCEPT
                     !.proof.sc_proof_phase1[1].proof_sum.z_beta = alter(1, @),
                     !.proof.pok_claims_phase2[1].z1 = alter(2, @),
                     !.proof.pok_claims_phase2[2].z[5] = alter(3, @),
                     !.proof.proof_eq_sc_phase1.z = alter(4, @),
                     !.proof.sc_proof_phase2[1].proof_sum.z_beta = alter(5, @),
                     !.proof.proof_eval_vars_at_ry.z2 = alter(6, @),
                     !.proof.proof_eq_sc_phase2.z = alter(7, @)]
  /\ UNCHANGED <<rngSeed, phase, kind, inp, out, res, gensLog>>

NextR1CS ==
  \/ R1CSProve
  \/ R1CSVerify

SpecR1CS == Init /\ [][NextR1CS]_vars

\* The same runs with the tape's seed fixed and verify also run on altered
\* proofs.
SpecR1CSAlter == InitFixedSeed /\ [][NextR1CS \/ R1CSAlter]_vars

(***************************************************************************)
(* Claims                                                                  *)
(***************************************************************************)

\* C2: for every scalar x and blind r, the proof and the commitment
\* C = x*G + r*h returned by KnowledgeProof::prove are accepted by
\* KnowledgeProof::verify with the same generators on a transcript in the
\* same starting state.
C2_KnowledgeComplete ==
  (phase = "verified" /\ kind = "knowledge" /\ arg = HonestKnowledgeArg)
    => /\ res.result = "Ok"
       /\ out.C = gadd(gmul(inp.gens_n.G[1], inp.x), gmul(inp.gens_n.h, inp.r))

C2_Witness ==
  /\ phase = "verified" /\ kind = "knowledge" /\ arg = HonestKnowledgeArg
  /\ inp.x # 0 /\ inp.r # 0
  /\ out.proof.z2 # 0
  /\ res.result = "Ok"

\* C3: for every value v and blinds s1, s2, EqualityProof::prove(v, s1, v, s2)
\* returns a proof and commitments C1, C2 that EqualityProof::verify accepts
\* with the same generators on a transcript in the same starting state.
C3_EqualityComplete ==
  (phase = "verified" /\ kind = "equality" /\ arg = HonestEqualityArg
     /\ inp.v1 = inp.v2)
    => res.result = "Ok"

C3_Witness ==
  /\ phase = "verified" /\ kind = "equality" /\ arg = HonestEqualityArg
  /\ inp.v1 = inp.v2 /\ inp.v1 # 0 /\ inp.s1 # inp.s2
  /\ out.C1 # out.C2
  /\ res.result = "Ok"

\* C4: for every x, y, rX, rY, rZ with z = x*y, the proof and the commitments
\* X, Y, Z returned by ProductProof::prove are accepted by
\* ProductProof::verify.
C4_ProductComplete ==
  (phase = "verified" /\ kind = "product" /\ arg = HonestProductArg
     /\ inp.z = fmul(inp.x, inp.y))
    => res.result = "Ok"

C4_Witness ==
  /\ phase = "verified" /\ kind = "product" /\ arg = HonestProductArg
  /\ inp.z = fmul(inp.x, inp.y) /\ inp.z # 0
  /\ inp.rX # 0 /\ inp.rY # 0 /\ inp.rZ # 0
  /\ res.result = "Ok"

\* C5: for every vector x, public vector a of the same length n, blinds
\* blind_x, blind_y and y = <a, x>, the proof and the commitments Cx, Cy
\* returned by the linear-size DotProductProof::prove are accepted by
\* DotProductProof::verify with the same gens_1, gens_n and a.
C5_DotProductComplete ==
  (phase = "verified" /\ kind = "dotproduct" /\ arg = HonestDotProductArg
     /\ inp.y = compute_dotproduct(inp.a_vec, inp.x_vec))
    => res.result = "Ok"

C5_Witness ==
  /\ phase = "verified" /\ kind = "dotproduct" /\ arg = HonestDotProductArg
  /\ Len(inp.x_vec) = MaxLen
  /\ inp.y = compute_dotproduct(inp.a_vec, inp.x_vec) /\ inp.y # 0
  /\ inp.blind_x # 0 /\ inp.blind_y # 0
  /\ res.result = "Ok"

\* C9: on the verifier path a violated length condition (gens_n.n # a.len()
\* or gens_1.n # 1 in DotProductProof::verify) surfaces as the
\* verification-failure error outcome, not as an abort and not as Ok.
C9_LengthViolationIsErr ==
  (phase = "verified" /\ kind = "dotproduct"
     /\ (arg.gens_n.n # Len(arg.a) \/ arg.gens_1.n # 1))
    => res.result = "Err"

C8_SplitLaw ==
  /\ kind = "split" =>
       LET g == res.g  g1 == res.g1  g2 == res.g2  m == res.mid
       IN  /\ g1.n = m /\ Len(g1.G) = m
           /\ g2.n = g.n - m /\ Len(g2.G) = g.n - m
           /\ \A i \in 1 .. m : g1.G[i] = g.G[i]
           /\ \A i \in 1 .. (g.n - m) : g2.G[i] = g.G[m + i]
           /\ g1.h = g.h /\ g2.h = g.h
           /\ gensLog[res.idx].gens = g
  /\ kind = "dpgens" =>
       LET d == res.gens
           pool == MultiCommitGens_new(res.n + 1, res.label)
       IN  /\ d.gens_n.n = res.n /\ Len(d.gens_n.G) = res.n
           /\ d.gens_1.n = 1 /\ Len(d.gens_1.G) = 1
           /\ d.gens_n.h = d.gens_1.h
           /\ d.gens_1.h = pool.h
           /\ d.gens_1.G[1] = pool.G[res.n + 1]

C8_Witness ==
  /\ kind = "split"
  /\ res.mid >= 1 /\ res.g.n - res.mid >= 2
  /\ res.g2.G[2] = res.g.G[res.mid + 2]
  /\ res.g1.h = res.g2.h

\* C6: for every vector x and public vector a of length n (a power of two),
\* blinds blind_x, blind_y and y = <a, x>, the proof and the commitments
\* Cx, Cy returned by DotProductProofLog::prove are accepted by
\* DotProductProofLog::verify with the same DotProductProofGens(n) and a.
C6_DotProductLogComplete ==
  (phase = "verified" /\ kind = "dotproductlog" /\ arg = HonestDotProductLogArg
     /\ inp.y = compute_dotproduct(inp.a_vec, inp.x_vec))
    => res.result = "Ok"

C6_Witness ==
  /\ phase = "verified" /\ kind = "dotproductlog" /\ arg = HonestDotProductLogArg
  /\ inp.n = 2 ^ MaxLg
  /\ inp.y # 0 /\ inp.blind_x # 0 /\ inp.blind_y # 0
  /\ Len(out.proof.bullet_reduction_proof.L_vec) = MaxLg
  /\ res.result = "Ok"

\* C10: DotProductProofLog::verify emits only the boolean result of its final
\* check: for every proof, adversarial ones included, whose closing equation
\* does not hold, verify returns the error outcome and never panics.
C10_LogVerifyNeverPanics ==
  (phase = "verified" /\ kind = "dotproductlog"
     /\ arg.gens.n = arg.n /\ Len(arg.a) = arg.n)
    => res.result \in {"Ok", "Err"}

\* C1: for every satisfying R1CS instance (inst, vars, input) with
\* input.len() < vars.len(), R1CSProof::prove followed by R1CSProof::verify on
\* a fresh transcript with the same initial label, the same generators, the
\* same input and evals = inst.evaluate(rx, ry) returns Ok, and the (rx, ry)
\* verify returns are the (rx, ry) prove returned.
C1_R1CSComplete ==
  (phase = "verified" /\ kind = "r1cs" /\ arg = HonestR1CSArg
     /\ is_sat(inp.inst, inp.vars_, inp.input) /\ Len(inp.input) < Len(inp.vars_))
    => (res.result = "Ok" /\ res.rx = out.rx /\ res.ry = out.ry)

C1_Witness ==
  /\ phase = "verified" /\ kind = "r1cs" /\ arg = HonestR1CSArg
  /\ is_sat(inp.inst, inp.vars_, inp.input)
  /\ Len(inp.input) = MaxInputs /\ Len(inp.input) < Len(inp.vars_)
  /\ \E i \in 1 .. inp.inst.num_cons :
       compute_dotproduct(inp.inst.C[i], build_z(inp.vars_, inp.input)) # 0
  /\ Len(out.rx) = LgCons /\ Len(out.ry) = LgVars + 1
  /\ out.ry[1] # 0 /\ out.ry[1] # 1
  /\ res.result = "Ok" /\ res.rx = out.rx /\ res.ry = out.ry

\* C11: ProductProof rejects a wrong product.  When ProductProof::prove is run
\* with z = x*y + 1, ProductProof::verify on the returned proof and (X, Y, Z)
\* returns the error outcome whenever the challenge c is non-zero.
C11_WrongProductRejected ==
  (phase = "verified" /\ kind = "product" /\ arg = HonestProductArg
     /\ inp.z = fadd(fmul(inp.x, inp.y), 1)
     /\ last_challenge(out.transcript) # 0)
    => res.result = "Err"

C11_Witness ==
  /\ phase = "verified" /\ kind = "product" /\ arg = HonestProductArg
  /\ inp.x # 0 /\ inp.y # 0 /\ inp.rX # 0
  /\ inp.z = fadd(fmul(inp.x, inp.y), 1)
  /\ last_challenge(out.transcript) # 0
  /\ check_equality(out.proof.alpha, out.X, last_challenge(out.transcript),
                    inp.gens_n, out.proof.z[1], out.proof.z[2])
  /\ check_equality(out.proof.beta, out.Y, last_challenge(out.transcript),
                    inp.gens_n, out.proof.z[3], out.proof.z[4])
  /\ res.result = "Err"

\* The verifier absorbed another protocol-name tag than the prover, and
\* otherwise the same messages with the same labels in the same order.
C12_Retagged ==
  /\ phase = "verified" /\ HonestSigmaArg
  /\ Len(res.transcript.log) = Len(out.transcript.log)
  /\ res.transcript.log[2].label = "protocol-name"
  /\ res.transcript.log[2].data # out.transcript.log[2].data
  /\ \A i \in 1 .. Len(out.transcript.log) :
       i # 2 => res.transcript.log[i] = out.transcript.log[i]

\* The proof is valid under the tag the prover absorbed.
C12_ValidBefore ==
  \/ kind = "knowledge"
       /\ KnowledgeProof_verify(arg.proof, arg.gens_n, Transcript_new(arg.label),
                                arg.C).result = "Ok"
  \/ kind = "equality"
       /\ EqualityProof_verify(arg.proof, arg.gens_n, Transcript_new(arg.label),
                               arg.C1, arg.C2).result = "Ok"
  \/ kind = "product"
       /\ ProductProof_verify(arg.proof, arg.gens_n, Transcript_new(arg.label),
                              arg.X, arg.Y, arg.Z).result = "Ok"
  \/ kind = "dotproduct"
       /\ DotProductProof_verify(arg.proof, arg.gens_1, arg.gens_n,
                                 Transcript_new(arg.label),
                                 arg.a, arg.Cx, arg.Cy).result = "Ok"

\* Every commitment of the statement is the identity of the group.
C12_Degenerate ==
  \/ kind = "knowledge" /\ arg.C = 0
  \/ kind = "equality" /\ arg.C1 = arg.C2
  \/ kind = "product" /\ arg.X = 0 /\ arg.Y = 0 /\ arg.Z = 0
  \/ kind = "dotproduct" /\ arg.Cx = 0 /\ arg.Cy = 0

\* C12 as stated: if the protocol-name tag absorbed by the verifier differs
\* from the tag the prover absorbed, all other absorbed data equal, the
\* recomputed challenge differs and verify of a proof valid under the
\* original tag returns the error outcome.
C12_TagReplacedRejects ==
  (C12_Retagged /\ C12_ValidBefore)
    => /\ last_challenge(res.transcript) # last_challenge(out.transcript)
       /\ res.result = "Err"

\* C12, amended: if the tag absorbed by the verifier differs from the tag the
\* prover absorbed, all other absorbed data equal, then verify of a proof
\* valid under the original tag returns the error outcome whenever the
\* recomputed challenge differs from the prover's and the commitments of the
\* statement are not all the identity (for EqualityProof: C1 # C2).
C12_TagReplacedRejectsNondegenerate ==
  (/\ C12_Retagged /\ C12_ValidBefore
   /\ last_challenge(res.transcript) # last_challenge(out.transcript)
   /\ ~C12_Degenerate)
    => res.result = "Err"

C12_Witness ==
  /\ C12_Retagged /\ C12_ValidBefore /\ ~C12_Degenerate
  /\ kind = "dotproduct" /\ Len(arg.a) = MaxLen
  /\ last_challenge(res.transcript) # last_challenge(out.transcript)
  /\ res.result = "Err"

\* The honest proof is accepted by the verifier.
C13_ValidBefore ==
  \/ kind = "knowledge"
       /\ KnowledgeProof_verify(out.proof, inp.gens_n, Transcript_new("example"),
                                out.C).result = "Ok"
  \/ kind = "equality"
       /\ EqualityProof_verify(out.proof, inp.gens_n, Transcript_new("example"),
                               out.C1, out.C2).result = "Ok"
  \/ kind = "product"
       /\ ProductProof_verify(out.proof, inp.gens_n, Transcript_new("example"),
                              out.X, out.Y, out.Z).result = "Ok"
  \/ kind = "dotproduct"
       /\ DotProductProof_verify(out.proof, inp.gens_1, inp.gens_n,
                                 Transcript_new("example"),
                                 inp.a_vec, out.Cx, out.Cy).result = "Ok"

\* verify was handed the prover's commitments, generators and transcript
\* label, and the prover's proof with exactly one scalar replaced by a
\* different field element.
C13_OneScalarAltered ==
  \E v \in F :
    \/ /\ kind = "knowledge"
       /\ \E f \in {"z1", "z2"} :
            /\ v # out.proof[f]
            /\ arg = [HonestKnowledgeArg EXCEPT !.proof[f] = v]
    \/ /\ kind = "equality"
       /\ v # out.proof.z
       /\ arg = [HonestEqualityArg EXCEPT !.proof.z = v]
    \/ /\ kind = "product"
       /\ \E i \in 1 .. 5 :
            /\ v # out.proof.z[i]
            /\ arg = [HonestProductArg EXCEPT !.proof.z[i] = v]
    \/ /\ kind = "dotproduct"
       /\ \/ \E i \in 1 .. Len(out.proof.z) :
               /\ v # out.proof.z[i]
               /\ arg = [HonestDotProductArg EXCEPT !.proof.z[i] = v]
          \/ \E f \in {"z_delta", "z_beta"} :
               /\ v # out.proof[f]
               /\ arg = [HonestDotProductArg EXCEPT !.proof[f] = v]

\* C13: perturbing any single scalar of a valid proof makes verify reject:
\* z1 or z2 of a KnowledgeProof, z of an EqualityProof, any z[i] of a
\* ProductProof, any z[i], z_delta or z_beta of a DotProductProof; verify,
\* with the same commitments and the same transcript start, returns the error
\* outcome.
C13_PerturbedScalarRejected ==
  (/\ phase = "verified"
   /\ kind \in {"knowledge", "equality", "product", "dotproduct"}
   /\ C13_ValidBefore /\ C13_OneScalarAltered
   /\ res.transcript.log[2] = out.transcript.log[2])
    => res.result = "Err"

C13_Witness ==
  /\ phase = "verified" /\ kind = "dotproduct"
  /\ C13_ValidBefore /\ C13_OneScalarAltered
  /\ Len(inp.a_vec) = MaxLen
  /\ arg.proof.z_beta = fadd(out.proof.z_beta, MaxDelta)
  /\ res.transcript = out.transcript
  /\ res.result = "Err"

\* C14: RandomTape::new pre-seeds the tape, under tag "init_randomness", with
\* a scalar drawn from entropy that is independent across tapes: each tape
\* absorbs its own draw of the entropy source, so two tapes created with the
\* same name from different draws are in different states.
C14_TapeSeededFromEntropy ==
  kind = "tapes"
    => /\ out.first.log[2] = [label |-> "init_randomness", data |-> inp.e1]
       /\ out.second.log[2] = [label |-> "init_randomness", data |-> inp.e2]
       /\ inp.e1 # inp.e2 => out.first # out.second

\* The labels under which the prove operation of the current kind squeezes
\* its blinds, in the order of the squeezes.
C15_BlindLabels ==
  IF kind = "knowledge" THEN << "t1", "t2" >>
  ELSE IF kind = "equality" THEN << "r" >>
  ELSE IF kind = "product" THEN << "b1", "b2", "b3", "b4", "b5" >>
  ELSE [i \in 1 .. Len(inp.x_vec) |-> "d_vec"] \o << "r_delta", "r_beta" >>

\* The prover's tape after its first k blinds were squeezed from it.
RECURSIVE C15_TapeAfter(_)
C15_TapeAfter(k) ==
  IF k = 0 THEN RandomTape_new("proof")
  ELSE random_scalar(C15_TapeAfter(k - 1), C15_BlindLabels[k]).tr

\* The k-th blind the tape yields.
C15_Blind(k) == random_scalar(C15_TapeAfter(k - 1), C15_BlindLabels[k]).val

\* The proof's responses are the witness scaled by the challenge plus the
\* blinds the tape yields.
C15_BlindsFromTape ==
  LET c == last_challenge(out.transcript)
  IN  \/ /\ kind = "knowledge"
         /\ out.proof.alpha = commit_scalar(C15_Blind(1), C15_Blind(2), inp.gens_n)
         /\ out.proof.z1 = fadd(fmul(inp.x, c), C15_Blind(1))
         /\ out.proof.z2 = fadd(fmul(inp.r, c), C15_Blind(2))
      \/ /\ kind = "equality"
         /\ out.proof.alpha = gmul(inp.gens_n.h, C15_Blind(1))
         /\ out.proof.z = fadd(fmul(c, fsub(inp.s1, inp.s2)), C15_Blind(1))
      \/ /\ kind = "product"
         /\ out.proof.alpha = commit_scalar(C15_Blind(1), C15_Blind(2), inp.gens_n)
         /\ out.proof.beta = commit_scalar(C15_Blind(3), C15_Blind(4), inp.gens_n)
         /\ out.proof.z = << fadd(C15_Blind(1), fmul(c, inp.x)),
                             fadd(C15_Blind(2), fmul(c, inp.rX)),
                             fadd(C15_Blind(3), fmul(c, inp.y)),
                             fadd(C15_Blind(4), fmul(c, inp.rY)),
                             fadd(C15_Blind(5), fmul(c, fsub(inp.rZ, fmul(inp.rX, inp.y)))) >>
      \/ /\ kind = "dotproduct"
         /\ out.proof.z = [i \in 1 .. Len(inp.x_vec) |-> fadd(fmul(c, inp.x_vec[i]), C15_Blind(i))]
         /\ out.proof.z_delta = fadd(fmul(c, inp.blind_x), C15_Blind(Len(inp.x_vec) + 1))
         /\ out.proof.z_beta = fadd(fmul(c, inp.blind_y), C15_Blind(Len(inp.x_vec) + 2))

\* No entry of the log was made under a label of the tape.
C15_NoTapeLabel(log) ==
  \A i \in DOMAIN log :
    /\ log[i].label # "init_randomness"
    /\ \A k \in DOMAIN C15_BlindLabels : log[i].label # C15_BlindLabels[k]

C16_ProtocolName ==
  IF kind = "knowledge" THEN "knowledge proof"
  ELSE IF kind = "equality" THEN "equality proof"
  ELSE IF kind = "product" THEN "product proof"
  ELSE IF kind = "dotproduct" THEN "dot product proof"
  ELSE "R1CS proof"

\* The positions of the log at which the transcript was squeezed for a
\* challenge.
C16_Squeezes(log) ==
  {i \in DOMAIN log : log[i].label \in {"c", "challenge_tau", "challenge_nextround", "challenege_Az", "challenege_Bz", "challenege_Cz"}}

RECURSIVE C17_Sum(_, _, _)
C17_Sum(gens_n, v, i) ==
  IF i = 0 THEN 0 ELSE gadd(C17_Sum(gens_n, v, i - 1), gmul(gens_n.G[i], v[i]))

C17_Com(v, r) == gadd(C17_Sum(inp.gens_n, v, Len(v)), gmul(inp.gens_n.h, r))

\* C17: commit computes Com(v; r) = sum_i v_i * G_i + r * h, in the scalar
\* form with n = 1 and in the vector forms with n = len(v), and under one
\* generator set Com(v1; r1) + Com(v2; r2) = Com(v1 + v2; r1 + r2) and
\* c * Com(v; r) = Com(c * v; c * r).
C17_CommitHomomorphic ==
  kind = "commit"
    => /\ out.C1 = C17_Com(inp.v1, inp.r1)
       /\ out.C2 = C17_Com(inp.v2, inp.r2)
       /\ gadd(out.C1, out.C2) = out.Csum
       /\ gmul(out.C1, inp.c) = out.Cscaled

C17_Witness ==
  /\ kind = "commit"
  /\ inp.form = "vec"
  /\ inp.gens_n.n = MaxLen
  /\ \A i \in 1 .. MaxLen : inp.v1[i] # 0 /\ inp.v2[i] # 0
  /\ inp.r1 # 0 /\ inp.r2 # 0
  /\ inp.c > 1
  /\ out.C1 # 0 /\ out.C2 # 0 /\ out.C1 # out.C2
  /\ out.Csum # 0 /\ out.Cscaled # out.C1

\* The sub-proofs of an R1CS proof in the order in which verify checks them,
\* and the protocol names under which the checks start.
C18_Sub(proof) ==
  << proof.sc_proof_phase1, proof.pok_claims_phase2[1], proof.pok_claims_phase2[2],
     proof.proof_eq_sc_phase1, proof.sc_proof_phase2, proof.proof_eval_vars_at_ry,
     proof.proof_eq_sc_phase2 >>

C18_Names ==
  << "zk sumcheck proof", "knowledge proof", "product proof", "equality proof",
     "zk sumcheck proof", "polynomial evaluation proof", "equality proof" >>

\* The first position after from at which the prover's transcript holds m.
C18_NextAt(from, m) ==
  CHOOSE k \in (from + 1) .. Len(out.transcript.log) :
    /\ out.transcript.log[k] = m
    /\ \A j \in (from + 1) .. (k - 1) : out.transcript.log[j] # m

\* The position at which sub-check i starts in the prover's transcript.
RECURSIVE C18_Start(_)
C18_Start(i) ==
  IF i = 0 THEN 0
  ELSE C18_NextAt(C18_Start(i - 1),
                  [label |-> "protocol-name", data |-> Bytes(C18_Names[i])])

\* The position of the first challenge "c" of sub-check i: that of its first
\* sigma protocol.
C18_FirstChallenge(i) ==
  C18_NextAt(C18_Start(i), [label |-> "c", data |-> ChallengeMark])

\* The sub-proofs that differ from those prove returned.
C18_Failing == {j \in 1 .. 7 : C18_Sub(arg.proof)[j] # C18_Sub(out.proof)[j]}

RECURSIVE C19_ReplayFrom(_, _, _, _)
C19_ReplayFrom(log, st, lo, hi) ==
  IF lo > hi THEN st
  ELSE IF lo = hi THEN StrobeStep(st, log[lo])
  ELSE C19_ReplayFrom(log, C19_ReplayFrom(log, st, lo, (lo + hi) \div 2),
                      (lo + hi) \div 2 + 1, hi)

\* Absorbing the entries of log from position lo on, in order and started
\* in st, leaves the state final.  The log is replayed eight entries at a
\* time.
RECURSIVE C19_ReplaysTo(_, _, _, _)
C19_ReplaysTo(log, st, lo, final) ==
  IF lo > Len(log) THEN st = final
  ELSE \E s \in {C19_ReplayFrom(log, st, lo, IF lo + 7 > Len(log) THEN Len(log) ELSE lo + 7)} :
         C19_ReplaysTo(log, s, lo + 8, final)

\* The payloads of the entries of log made under label, in order.
C19_Under(log, label) ==
  LET at == {k \in DOMAIN log : log[k].label = label}
  IN  [j \in 1 .. Cardinality(at) |->
         log[CHOOSE k \in at : Cardinality({m \in at : m <= k}) = j].data]

\* The entries from the KnowledgeProof to the squeeze of r_C.
C19_MiddleLabels ==
  << "protocol-name", "C", "alpha", "c",
     "protocol-name", "X", "Y", "Z", "alpha", "beta", "delta", "c",
     "comm_Az_claim", "comm_Bz_claim", "comm_Cz_claim", "comm_prod_Az_Bz_claims",
     "protocol-name", "C1", "C2", "alpha", "c",
     "challenege_Az", "challenege_Bz", "challenege_Cz" >>

\* In log every absorb precedes the squeeze that depends on it.
C19_AbsorbsFirst(log, proof, input) ==
  /\ log[2] = [label |-> "protocol-name", data |-> Bytes("R1CS proof")]
  /\ C19_Under(log, "input")
       = << Bytes("begin_append_vector") >> \o input \o << Bytes("end_append_vector") >>
  /\ C19_Under(log, "poly_commitment")
       = << Bytes("poly_commitment_begin") >> \o proof.comm_vars.C
           \o << Bytes("poly_commitment_end") >>
  /\ \E t \in DOMAIN log : log[t].label = "challenge_tau"
  /\ \A t \in DOMAIN log :
       log[t].label = "challenge_tau"
         => /\ 2 < t
            /\ \A k \in DOMAIN log :
                 log[k].label \in {"input", "poly_commitment"} => k < t
  /\ \E a \in DOMAIN log :
       /\ a > 21
       /\ \A k \in DOMAIN log : log[k].label = "challenege_Az" <=> k = a
       /\ [k \in 1 .. 24 |-> log[a - 22 + k].label] = C19_MiddleLabels
       /\ log[a - 21].data = Bytes("knowledge proof")
       /\ log[a - 17].data = Bytes("product proof")
       /\ [k \in 1 .. 4 |-> log[a - 10 + k].data] = proof.claims_phase2
       /\ log[a - 5].data = Bytes("equality proof")

\* C19: in R1CSProof::prove and R1CSProof::verify every absorb precedes the
\* squeeze that depends on it.  The protocol name, the input vector and
\* comm_vars are absorbed before tau is squeezed; the KnowledgeProof and
\* ProductProof messages, the four commitments comm_Az_claim, comm_Bz_claim,
\* comm_Cz_claim, comm_prod_Az_Bz_claims and the messages of the first
\* EqualityProof are absorbed before r_A, r_B, r_C are squeezed; the
\* transcript is only appended to: its state is the one that absorbing the
\* whole log, entry by entry, leaves, and the log starts with the initial
\* label.
C19_AbsorbBeforeSqueeze ==
  (phase \in {"proved", "verified"} /\ kind = "r1cs")
    => /\ C19_AbsorbsFirst(out.transcript.log, out.proof, inp.input)
       /\ C19_ReplaysTo(out.transcript.log, StrobeInit, 1, out.transcript.st)
       /\ out.transcript.log[1] = Transcript_new("example").log[1]
       /\ (phase = "verified" /\ arg = HonestR1CSArg)
            => /\ C19_AbsorbsFirst(res.transcript.log, arg.proof, arg.input)
               /\ C19_ReplaysTo(res.transcript.log, StrobeInit, 1, res.transcript.st)
               /\ res.transcript.log[1] = Transcript_new(arg.label).log[1]

C19_Witness ==
  /\ phase = "verified"
  /\ kind = "r1cs"
  /\ arg = HonestR1CSArg
  /\ res.result = "Ok"
  /\ Len(inp.input) = MaxInputs
  /\ \E a \in DOMAIN res.transcript.log :
       /\ res.transcript.log[a].label = "challenege_Az"
       /\ res.transcript.log[a - 9].data # 0
       /\ res.transcript.log[a - 8].data # res.transcript.log[a - 9].data

\* C20: for vars of length v and input of length k with k < v,
\* R1CSProof::prove builds z = vars || 1 || input || zeros with exactly
\* v - k - 1 trailing zeros, so len(z) = 2v, z[v] = 1 and z[v+1+i] = input[i]
\* (positions counted from 0); when k >= v prove aborts and returns no
\* proof.  When prove returns, the prover's round count log2(len(z)) equals
\* the verifier's log2(2 * num_vars).
C20_ZLayout ==
  (kind = "r1cs" /\ phase # "init")
    => LET v == Len(inp.vars_)
           k == Len(inp.input)
           z == build_z(inp.vars_, inp.input)
       IN  /\ k >= v => phase = "aborted" /\ out = [panic |-> TRUE]
           /\ k < v
                => /\ Len(z) = 2 * v
                   /\ SubSeq(z, 1, v) = inp.vars_
                   /\ z[v + 1] = 1
                   /\ \A i \in 1 .. k : z[v + 1 + i] = inp.input[i]
                   /\ Cardinality((v + k + 2) .. (2 * v)) = v - k - 1
                   /\ \A j \in (v + k + 2) .. (2 * v) : z[j] = 0
                   /\ phase # "aborted"
                        => /\ Len(out.proof.sc_proof_phase2) = log_2(Len(z))
                           /\ Len(out.ry) = log_2(Len(z))
                           /\ log_2(Len(z)) = log_2(2 * HonestR1CSArg.num_vars)
                   /\ (phase = "verified" /\ arg = HonestR1CSArg)
                        => Len(res.ry) = log_2(Len(z))

C20_Witness ==
  /\ kind = "r1cs"
  /\ phase = "verified"
  /\ arg = HonestR1CSArg
  /\ res.result = "Ok"
  /\ Len(inp.input) = 0
  /\ Len(inp.vars_) = 2 ^ LgVars
  /\ inp.vars_[1] # 0
  /\ build_z(inp.vars_, inp.input)[2 ^ LgVars + 2] = 0
  /\ Len(res.ry) = LgVars + 1


\* The labels of the entries the prover's tape logged, in order.
C21_TapeLabels == [i \in DOMAIN out.random_tape.log |-> out.random_tape.log[i].label]

\* C21: in DotProductProofLog::prove the closing blinds r_delta and r_beta
\* are squeezed from the RandomTape under two distinct labels: after the
\* tape's seed and the draw of d, the tape logs a squeeze under "r_delta" and
\* then one under "r_beta".
C21_ClosingBlindLabelsDistinct ==
  (/\ kind = "dotproductlog"
   /\ phase \in {"proved", "verified"}
   /\ ~out.panic)
    => /\ SubSeq(C21_TapeLabels, 1, 3) = << "dom-sep", "init_randomness", "d" >>
       /\ C21_TapeLabels[4] = "r_delta"
       /\ C21_TapeLabels[5] = "r_beta"
       /\ C21_TapeLabels[4] # C21_TapeLabels[5]


\* The number of squeezes the prover's tape logged under the label.
C22_Drawn(label) ==
  Cardinality({i \in DOMAIN out.random_tape.log : out.random_tape.log[i].label = label})

\* C22: for a vector of length n, a power of two, DotProductProofLog::prove
\* hands the Bullet reduction exactly one blinding pair per round: the two
\* halves of the pairs are log2(n) squeezes under "blinds_vec_1" and log2(n)
\* squeezes under "blinds_vec_2", as many as the reduction has rounds.
C22_OneBlindPairPerRound ==
  (/\ kind = "dotproductlog"
   /\ phase \in {"proved", "verified"}
   /\ ~out.panic)
    => /\ Len(out.proof.bullet_reduction_proof.L_vec) = log_2(inp.n)
       /\ C22_Drawn("blinds_vec_1") = log_2(inp.n)
       /\ C22_Drawn("blinds_vec_2") = log_2(inp.n)


\* The phase-2 closing EqualityProof of equal values v under blinds s1 and s2,
\* produced under gens_p and checked under gens_v.
C23_ClosingProofAccepted(gens_p, gens_v, v, s1, s2) ==
  LET o == EqualityProof_prove(gens_p, Transcript_new("example"), RandomTape_new("proof"), v, s1, v, s2)
  IN  /\ ~o.panic
      /\ EqualityProof_verify(o.proof, gens_v, Transcript_new("example"), o.C1, o.C2).result = "Ok"

\* C23: in every R1CSGens built by R1CSGens::new, gens_sc.gens_1 has the same
\* single generator G[0] and the same h as gens_pc.gens.gens_1; hence a
\* commitment formed under one is the commitment formed under the other, and
\* the closing EqualityProof produced under gens_pc.gens.gens_1 is accepted
\* under gens_sc.gens_1.
C23_SumcheckGensShareBase ==
  kind = "r1csgens" =>
    LET sc1 == res.gens.gens_sc.gens_1
        pc1 == res.gens.gens_pc.gens.gens_1
    IN  /\ sc1.n = 1 /\ Len(sc1.G) = 1
        /\ pc1.n = 1 /\ Len(pc1.G) = 1
        /\ sc1.G[1] = pc1.G[1]
        /\ sc1.h = pc1.h
        /\ \A v \in F : commit_scalar(v, 0, pc1) = commit_scalar(v, 0, sc1)
        /\ \A v \in Vals, s1 \in Vals, s2 \in Vals :
             C23_ClosingProofAccepted(pc1, sc1, v, s1, s2)

C23_Witness ==
  /\ kind = "r1csgens"
  /\ res.num_vars = 4
  /\ res.gens.gens_pc.gens.gens_n.n = 2
  /\ res.gens.gens_sc.gens_1.G[1] = res.gens.gens_pc.gens.gens_1.G[1]
  /\ res.gens.gens_sc.gens_1.G[1] # MultiCommitGens_new(1, res.label).G[1]
  /\ res.gens.gens_sc.gens_1.h = res.gens.gens_pc.gens.gens_1.h


\* The smaller set is a prefix of the larger one: its generators are the
\* first ones of the larger set and its h is the next generator of it.
C24_PrefixOf(small, large) ==
  /\ small.G = SubSeq(large.G, 1, small.n)
  /\ small.h = large.G[small.n + 1]

\* C24: generator sets built from the same label are prefixes of one stream:
\* for every label L and n < n', MultiCommitGens::new(n, L).G is the first n
\* elements of MultiCommitGens::new(n', L).G and MultiCommitGens::new(n, L).h
\* is MultiCommitGens::new(n', L).G[n].  In R1CSSumcheckGens::new, gens_3.G is
\* gens_4.G[0..3) and gens_3.h is gens_4.G[3], a generator of gens_4 and not
\* the h of gens_4.
C24_GensPrefixOfOneStream ==
  /\ \A i \in DOMAIN gensLog, j \in DOMAIN gensLog :
       (gensLog[i].label = gensLog[j].label /\ gensLog[i].n < gensLog[j].n)
         => C24_PrefixOf(gensLog[i].gens, gensLog[j].gens)
  /\ kind = "r1csgens" =>
       LET gens_3 == res.gens.gens_sc.gens_3
           gens_4 == res.gens.gens_sc.gens_4
       IN  /\ gens_3.n = 3 /\ gens_4.n = 4
           /\ gens_3 = gensLog[Len(gensLog) - 1].gens
           /\ gens_4 = gensLog[Len(gensLog)].gens
           /\ gens_3.G = SubSeq(gens_4.G, 1, 3)
           /\ gens_3.h = gens_4.G[4]
           /\ gens_3.h # gens_4.h

C24_Witness ==
  /\ kind = "r1csgens"
  /\ Len(gensLog) = 6
  /\ gensLog[1].label = gensLog[4].label
  /\ gensLog[1].n = 2 /\ gensLog[4].n = 5
  /\ C24_PrefixOf(gensLog[1].gens, gensLog[4].gens)
  /\ C24_PrefixOf(gensLog[2].gens, gensLog[6].gens)
  /\ C24_PrefixOf(gensLog[3].gens, gensLog[4].gens)
  /\ res.gens.gens_sc.gens_3.h = res.gens.gens_sc.gens_4.G[4]
  /\ res.gens.gens_sc.gens_3.h # res.gens.gens_sc.gens_4.h

====
